---- MODULE Spec2Model ----
(***************************************************************************)
(* A model of ddsp::InferencePipeline (src/core/src/InferencePipeline.cpp) *)
(* with its predictor and harmonic synthesizer, and of the three threads   *)
(* that use it: the control thread (prepareToPlay, loadModel, startTimer,  *)
(* stopTimer, reset, triggerRender, releaseResources), the render worker   *)
(* (renderLoop) and the audio thread (getNextBlock).                       *)
(*                                                                         *)
(* Numbers.  Host sample rates are small (50 Hz, 100 Hz) so that, with the *)
(* program's own kModelFrameSize, kModelHopSize and kModelSampleRate_Hz,   *)
(* a hop is 1 or 2 samples and a frame 4 or 7; the ring is scaled to match.*)
(* Floats are exact rationals in fixed units: f0 in hundredths of a Hz     *)
(* (cHz), phase in units of 2*pi / (100 * kModelSampleRate_Hz * HalfHop),  *)
(* loudness in units of 1/80, normalized pitch in units of 1/127.  A       *)
(* rendered sample is represented by its sequence number (1, 2, ...) among *)
(* the samples the pipeline has rendered; 0 is silence.                    *)
(***************************************************************************)
EXTENDS Integers, Sequences, FiniteSets, TLC

\* ------------------------------------------------------------ constants
kModelSampleRate_Hz == 16000
kModelFrameSize == 1024
kModelHopSize == 320
kSemitonesPerOctave == 12
kMidiNoteA4 == 69
kFreqA4_Hz == 440
\* The ring size (61440 in DDSPTypes.h), scaled to the small host rates.
kRingBufferSize == 8
\* The number of harmonics (60 in DDSPTypes.h), scaled.
kHarmonicsSize == 2
\* Largest request of the audio thread, and the number of hops rendered
\* after which no further render tick starts.
MaxReq == 2
MaxTicks == 5
\* The same number for the runs that also exercise the control thread.
MaxTicksControl == 2
\* Largest value of the predictor's opaque recurrent state.
MaxGru == 1
HostRates == {50, 100}
\* A float that is not a number; every comparison with it is false.
NaN == 0 - 1000000000
Less(a, b) == a # NaN /\ b # NaN /\ a < b

\* Arguments of the setters: f0 in cHz, loudness in units of 1/80, dB, gains
\* and semitones; out of range on both sides, the ends, inside, and NaN.
F0Args == {NaN, 0, 818, 44000, 1254384, 2000000}
LoudnessArgs == {NaN, 0 - 80, 0, 40, 80, 160}
DbArgs == {NaN, 0 - 160, 0 - 80, 0 - 40, 0, 80}
GainArgs == {NaN, 0 - 1, 0, 1, 10, 11}
ShiftArgs == {0 - 12, 0, 12}
\* What the caller's buffer holds before getNextBlock writes to it.
Garbage == 0 - 1

Min(a, b) == IF a < b THEN a ELSE b
Max(a, b) == IF a > b THEN a ELSE b
CeilDiv(a, b) == (a + b - 1) \div b

\* ------------------------------------------------- juce::AbstractFifo
NoFifo == [allocated |-> FALSE, bufferSize |-> 0, validStart |-> 0, validEnd |-> 0]
NewFifo(capacity) ==
    [allocated |-> TRUE, bufferSize |-> capacity, validStart |-> 0, validEnd |-> 0]

getNumReady(f) ==
    IF f.validEnd >= f.validStart
    THEN f.validEnd - f.validStart
    ELSE f.bufferSize - (f.validStart - f.validEnd)

getFreeSpace(f) == f.bufferSize - getNumReady(f) - 1

NoBlocks == [start1 |-> 0, size1 |-> 0, start2 |-> 0, size2 |-> 0]

prepareToWrite(f, numToWrite) ==
    LET n == Min(numToWrite, (f.bufferSize - getNumReady(f)) - 1)
        b1 == Min(f.bufferSize - f.validEnd, n)
    IN IF n <= 0 THEN NoBlocks
       ELSE [start1 |-> f.validEnd, size1 |-> b1, start2 |-> 0,
             size2 |-> IF n - b1 <= 0 THEN 0 ELSE Min(n - b1, f.validStart)]

finishedWrite(f, numWritten) ==
    LET newEnd == f.validEnd + numWritten
    IN [f EXCEPT !.validEnd = IF newEnd >= f.bufferSize THEN newEnd - f.bufferSize ELSE newEnd]

prepareToRead(f, numWanted) ==
    LET n == Min(numWanted, getNumReady(f))
        b1 == Min(f.bufferSize - f.validStart, n)
    IN IF n <= 0 THEN NoBlocks
       ELSE [start1 |-> f.validStart, size1 |-> b1, start2 |-> 0,
             size2 |-> IF n - b1 <= 0 THEN 0 ELSE Min(n - b1, f.validEnd)]

finishedRead(f, numRead) ==
    LET newStart == f.validStart + numRead
    IN [f EXCEPT !.validStart = IF newStart >= f.bufferSize THEN newStart - f.bufferSize ELSE newStart]

fifoReset(f) == [f EXCEPT !.validStart = 0, !.validEnd = 0]

\* The slots between validStart and validEnd: committed and not yet read.
ReadySlots(f) == {(f.validStart + i) % f.bufferSize : i \in 0..(getNumReady(f) - 1)}
\* The slots of the two blocks of a prepareToWrite or prepareToRead.
BlockSlots(b) ==
    {b.start1 + i : i \in 0..(b.size1 - 1)} \cup {b.start2 + i : i \in 0..(b.size2 - 1)}

\* std::copy(src, src + size1, dst + start1); std::copy(src + size1, ..., dst + start2)
\* on a ring held as a sequence (slot i of the code is dst[i + 1]).
CopyToRing(dst, src, b) ==
    [i \in 1..Len(dst) |->
        IF i - 1 >= b.start1 /\ i - 1 < b.start1 + b.size1 THEN src[i - b.start1]
        ELSE IF i - 1 >= b.start2 /\ i - 1 < b.start2 + b.size2
             THEN src[b.size1 + (i - b.start2)]
             ELSE dst[i]]

\* The two copies out of the ring, into the head of the caller's buffer.
CopyFromRing(out, src, b) ==
    [i \in 1..Len(out) |->
        IF i <= b.size1 THEN src[b.start1 + i]
        ELSE IF i <= b.size1 + b.size2 THEN src[b.start2 + (i - b.size1)]
             ELSE out[i]]

Zeros(n) == [i \in 1..n |-> 0]

\* ---------------------------------------------------------- InputUtils.h
\* The pitch range, in hundredths of a Hz (8.18 Hz and 12543.84 Hz).
kPitchRangeMin_cHz == 818
kPitchRangeMax_cHz == 1254384

RECURSIVE Pow2(_)
Pow2(k) == IF k <= 0 THEN 1 ELSE 2 * Pow2(k - 1)

\* log2(a / b), exact when the ratio is a power of two (the model's f0 values
\* are kFreqA4_Hz times a power of two) and rounded down to a whole octave
\* otherwise.
RECURSIVE Log2Ratio(_, _)
Log2Ratio(a, b) ==
    IF a >= 2 * b THEN 1 + Log2Ratio(a, 2 * b)
    ELSE IF a < b THEN Log2Ratio(2 * a, b) - 1
    ELSE 0

\* pitch_Hz * 2^(semitone_offset / 12), for whole octaves.
offsetPitch(pitch_Hz, semitone_offset) ==
    IF semitone_offset >= 0
    THEN pitch_Hz * Pow2(semitone_offset \div kSemitonesPerOctave)
    ELSE pitch_Hz \div Pow2((0 - semitone_offset) \div kSemitonesPerOctave)

\* The MIDI number of the clamped pitch; the code returns it divided by 127.
\* The ends of the pitch range are MIDI notes 0 and 127.
normalizedPitch(pitch_Hz) ==
    IF pitch_Hz <= kPitchRangeMin_cHz THEN 0
    ELSE IF pitch_Hz >= kPitchRangeMax_cHz THEN 127
    ELSE kSemitonesPerOctave * Log2Ratio(pitch_Hz, 100 * kFreqA4_Hz) + kMidiNoteA4

\* (loudness_norm - 1) * 80, with loudness_norm in units of 1/80.
denormalizeLoudness(loudness_norm) == loudness_norm - 80

\* --------------------------------------------------- HarmonicSynthesizer
HalfHop == kModelHopSize \div 2
\* 2*pi in the model's phase unit.
PhaseModulus == 100 * kModelSampleRate_Hz * HalfHop

NoF0 == [has |-> FALSE, value |-> 0]
SomeF0(f) == [has |-> TRUE, value |-> f]

HarmonicInit ==
    [previous_phase_ |-> 0, previous_f0_ |-> NoF0, previous_amplitude_ |-> 0,
     previous_harmonic_distribution_ |-> [h \in 1..kHarmonicsSize |-> 0]]

RECURSIVE SumSeq(_, _)
SumSeq(s, n) == IF n = 0 THEN 0 ELSE s[n] + SumSeq(s, n - 1)

\* The normalization as it would be without the division by the sum.
normalizeUnscaled(harmonic_distribution, amplitude, f0_hz) ==
    [h \in 1..kHarmonicsSize |->
        IF 2 * (h * f0_hz) >= 100 * kModelSampleRate_Hz THEN 0
        ELSE harmonic_distribution[h] * amplitude]

\* normalizeHarmonicDistribution: the coefficient of every harmonic whose
\* frequency h * f0_hz is at or above Nyquist is zeroed, the rest are divided
\* by their sum unless it is zero, and all are multiplied by the amplitude.
normalizeHarmonicDistribution(harmonic_distribution, amplitude, f0_hz) ==
    LET cut == [h \in 1..kHarmonicsSize |->
                  IF 2 * (h * f0_hz) >= 100 * kModelSampleRate_Hz THEN 0
                  ELSE harmonic_distribution[h]]
        total == SumSeq(cut, kHarmonicsSize)
    IN [h \in 1..kHarmonicsSize |->
          IF total # 0 THEN (cut[h] * amplitude) \div total ELSE cut[h] * amplitude]

\* An envelope that would reach `last' at the end of the hop, not midway.
wholeLerp(first, last, i) == first * HalfHop + (i * (last - first)) \div 2

\* midwayLerp: sample i (from 0) of the envelope, times HalfHop.
midwayLerp(first, last, i) ==
    IF i < HalfHop THEN first * HalfHop + i * (last - first) ELSE last * HalfHop

\* std::partial_sum of the frequency envelope: the sum of its samples lo..hi,
\* modulo 2*pi (summed by halves, which keeps the recursion shallow, and
\* reduced as it goes, which keeps the numbers in 32 bits; render keeps of
\* the sum only its fmod).
RECURSIVE EnvelopeSum(_, _, _, _)
EnvelopeSum(first, last, lo, hi) ==
    IF lo > hi THEN 0
    ELSE IF lo = hi THEN midwayLerp(first, last, lo) % PhaseModulus
    ELSE LET mid == (lo + hi) \div 2
         IN (EnvelopeSum(first, last, lo, mid) + EnvelopeSum(first, last, mid + 1, hi))
                % PhaseModulus

\* phases_.back() before previous_phase_ is added: the whole hop's sum.
PhaseSum(first, last, n) == EnvelopeSum(first, last, 0, n - 1)

\* render line 55: the frequency the envelope starts from.
previousF0(h, f0_hz) == IF h.previous_f0_.has THEN h.previous_f0_.value ELSE f0_hz

\* frequency_envelope_[i] of a render with f0_hz, times HalfHop: in the
\* model's phase unit, the phase increment of sample i.
frequencyEnvelope(h, f0_hz, i) == midwayLerp(previousF0(h, f0_hz), f0_hz, i)

\* harmonic_amplitudes_[k - 1][i] of a render, times HalfHop (harmonic k is
\* the one of frequency k * f0).
harmonicAmplitude(h, normalized, k, i) ==
    midwayLerp(h.previous_harmonic_distribution_[k], normalized[k], i)

\* phases_[i] of a render, modulo 2*pi: previous_phase_ plus the partial sum
\* of the phase increments.
phases(h, f0_hz, i) ==
    (h.previous_phase_ + EnvelopeSum(previousF0(h, f0_hz), f0_hz, 0, i)) % PhaseModulus

\* synthesizeHarmonics adds sin(phases_[i] * k) * harmonic_amplitudes_[k - 1][i]
\* to sample i: whether that term is zero (the amplitude is, or k times the
\* phase is a multiple of pi).
contributesZero(h, normalized, f0_hz, k, i) ==
    \/ harmonicAmplitude(h, normalized, k, i) = 0
    \/ (2 * ((k * phases(h, f0_hz, i)) % PhaseModulus)) % PhaseModulus = 0

\* render as it would be if it stored the last phase without the fmod.
harmonicRenderUnwrapped(h, normalized, amplitude, f0_hz) ==
    [previous_phase_ |->
        h.previous_phase_ + PhaseSum(previousF0(h, f0_hz), f0_hz, kModelHopSize),
     previous_f0_ |-> SomeF0(f0_hz),
     previous_amplitude_ |-> amplitude,
     previous_harmonic_distribution_ |-> normalized]

\* render as it would be if it did not store the distribution it rendered.
harmonicRenderStaleDistribution(h, normalized, amplitude, f0_hz) ==
    [previous_phase_ |->
        (h.previous_phase_ + PhaseSum(previousF0(h, f0_hz), f0_hz, kModelHopSize))
           % PhaseModulus,
     previous_f0_ |-> SomeF0(f0_hz),
     previous_amplitude_ |-> amplitude,
     previous_harmonic_distribution_ |-> h.previous_harmonic_distribution_]

\* HarmonicSynthesizer::render: the synthesizer's state after the call, given
\* the distribution as normalizeHarmonicDistribution left it.
harmonicRender(h, normalized, amplitude, f0_hz) ==
    LET prev_f0 == IF h.previous_f0_.has THEN h.previous_f0_.value ELSE f0_hz
    IN [previous_phase_ |->
            (h.previous_phase_ + PhaseSum(prev_f0, f0_hz, kModelHopSize)) % PhaseModulus,
        previous_f0_ |-> SomeF0(f0_hz),
        previous_amplitude_ |-> amplitude,
        previous_harmonic_distribution_ |-> normalized]

\* ------------------------------------------------------ NoiseSynthesizer
kNoiseAmpsSize == 65
\* white_noise_.size(): twice the size of the 2^9-point convolve_fft_.
ConvolveBufferSize == 2 * Pow2(9)

\* The constructor: impulse_response_size_ and the output buffer.
NoiseSynthesizer(num_noise_amps, num_output_samples) ==
    [num_noise_amps_ |-> num_noise_amps,
     num_output_samples_ |-> num_output_samples,
     impulse_response_size_ |-> (num_noise_amps - 1) * 2,
     noise_audio_ |-> Zeros(num_output_samples)]

\* white_noise_ after the inverse transform of convolve(): the sample at
\* index j (from 0) of convolution number `seed' is the tag
\* seed * ConvolveBufferSize + j + 1, which is never 0.
convolved(seed) == [j \in 1..ConvolveBufferSize |-> seed * ConvolveBufferSize + j]

\* The crop as it would be with the group delay (ir_size - 1) / 2 itself.
cropGroupDelay(n, input_audio, ir_size) ==
    LET delay == (ir_size - 1) \div 2
    IN [n EXCEPT !.noise_audio_ =
          [i \in 1..n.num_output_samples_ |->
              LET src_idx == delay + (i - 1)
              IN IF src_idx >= 0 /\ src_idx < Len(input_audio)
                 THEN input_audio[src_idx + 1] ELSE 0]]

\* cropAndCompensateDelay: output sample i (from 0) is input sample
\* delay + i, or 0 where that index is outside the input (ir_size - 1 is not
\* negative here, so the integer division is the same as in C++).
cropAndCompensateDelay(n, input_audio, ir_size) ==
    LET delay == (ir_size - 1) \div 2 - 1
    IN [n EXCEPT !.noise_audio_ =
          [i \in 1..n.num_output_samples_ |->
              LET src_idx == delay + (i - 1)
              IN IF src_idx >= 0 /\ src_idx < Len(input_audio)
                 THEN input_audio[src_idx + 1] ELSE 0]]

\* ------------------------------------------------- PredictControlsModel
\* The amplitude the model predictor emits when it is not silent; a multiple
\* of every possible sum of the harmonics, which keeps the normalization exact.
RECURSIVE Factorial(_)
Factorial(n) == IF n <= 1 THEN 1 ELSE n * Factorial(n - 1)
AmpUnit == Factorial(kHarmonicsSize + 1)
AllOnes == [h \in 1..kHarmonicsSize |-> 1]
AllZero == [h \in 1..kHarmonicsSize |-> 0]

\* What the interpreter may put in its output tensors.
TensorOutputs ==
    { [amplitude |-> 0, harmonics |-> AllZero, noiseAmps |-> 0],
      [amplitude |-> AmpUnit, harmonics |-> AllOnes, noiseAmps |-> 1] }

\* The tensors of the TfLite interpreter: the state input of the last call
\* and the outputs of the last invoke.
InterpreterInit ==
    [state_in |-> 0, amplitude |-> 0, harmonics |-> AllZero, noiseAmps |-> 0, state |-> 0]

SynthesisControlsInit ==
    [amplitude |-> 0, f0_hz |-> 0, noiseAmps |-> 0, harmonics |-> AllZero]

\* The four handles of PredictControlsModel, null after construction, and the
\* steps of loadModel that can fail: the model file, the interpreter options,
\* the interpreter, the tensor allocation, and cacheTensorIndices, which
\* fails when one of the seven named tensors is missing.
Handles == {"model_", "interpreter_options_", "interpreter_", "delegate_"}
LoadFailures == {"file", "options", "interpreter", "tensors", "indices"}

\* PredictControlsModel::releaseResources on the handles: each is deleted and
\* set to null.
releaseHandles(h) == h \ Handles

\* The handles as loadModel would leave them if its failure paths returned
\* without releaseResources.
loadHandlesLeaky(fail, delegate) ==
    LET opened == {"model_"}
        configured == opened \cup {"interpreter_options_"}
                             \cup (IF delegate THEN {"delegate_"} ELSE {})
        created == configured \cup {"interpreter_"}
    IN  IF fail = "file" THEN {}
        ELSE IF fail = "options" THEN opened
        ELSE IF fail = "interpreter" THEN configured
        ELSE created

\* The handles after PredictControlsModel::loadModel: releaseResources first,
\* then one handle after the other; the step `fail' fails ("none": no step
\* does) and the failure path releases what was created.  delegate: whether
\* initializeDelegate got a delegate (without one the load goes on).
loadHandles(fail, delegate) ==
    LET opened == releaseHandles(Handles) \cup {"model_"}
        configured == opened \cup {"interpreter_options_"}
                             \cup (IF delegate THEN {"delegate_"} ELSE {})
        created == configured \cup {"interpreter_"}
    IN  IF fail = "file" THEN releaseHandles(Handles)
        ELSE IF fail = "options" THEN releaseHandles(opened)
        ELSE IF fail = "interpreter" THEN releaseHandles(configured)
        ELSE IF fail \in {"tensors", "indices"} THEN releaseHandles(created)
        ELSE created
AudioFeaturesInit == [f0_hz |-> 0, loudness_db |-> 0, f0_norm |-> 0, loudness_norm |-> 0]

\* ------------------------------------------------------------- the state
VARIABLES
    sample_rate_, user_frame_size_, user_hop_size_, model_ready_,
    model_loaded_, gruState_, interpreter_, harmonic_synth_,
    input_fifo_, output_fifo_, input_ring_buffer_, output_ring_buffer_,
    resampled_model_output_buffer_,
    f0_hz_, loudness_norm_, pitch_shift_semitones_, harmonic_gain_, noise_gain_,
    current_pitch_, current_rms_, predict_controls_input_, synthesis_input_,
    should_run_,
    pc,         \* where each thread is: "ctl", "worker", "audio"
    rl,         \* the locals of render(), per thread that runs it
    al,         \* the locals of getNextBlock() on the audio thread
    rendered,   \* the number of samples rendered so far
    budget,     \* the number of hops the run may render (never changes)
    committed,  \* history: the samples committed to the output ring since
                \* the rings were last reset, in order
    delivered,  \* history: the samples getNextBlock returned since then
    cleanFloor, \* history: `rendered' at the last reset() made with no worker
    held,       \* PredictControlsModel: which of its four handles are not null
    hop_size_, current_midi_note_, current_pitch_bend_, current_midi_velocity_,
    adsr_,      \* MidiInputProcessor: its members
    features,   \* what getCurrentPredictControlsInput returned last
    noise_synth_, \* NoiseSynthesizer: its sizes and its output buffer
    binding,    \* DDSPProcessor of the Python binding: its members, where it is
    unity       \* EffectData of the Unity plugin: its members, where it is

config == <<sample_rate_, user_frame_size_, user_hop_size_>>
predictor == <<model_loaded_, gruState_, interpreter_>>
rings == <<input_fifo_, output_fifo_, input_ring_buffer_, output_ring_buffer_>>
params == <<f0_hz_, loudness_norm_, pitch_shift_semitones_, harmonic_gain_, noise_gain_>>
feedback == <<current_pitch_, current_rms_>>
controls == <<predict_controls_input_, synthesis_input_>>
history == <<committed, delivered, cleanFloor, budget>>
host == <<binding, unity>>
midi == <<hop_size_, current_midi_note_, current_pitch_bend_, current_midi_velocity_,
          adsr_, features>>
vars == <<binding, unity, noise_synth_, config, model_ready_, predictor, held, harmonic_synth_, rings,
          resampled_model_output_buffer_, params, feedback, controls,
          should_run_, pc, rl, al, rendered, history, midi>>

RenderThreads == {"ctl", "worker"}

\* outcome: how the thread's last render() ended ("none" before the first).
RenderLocalsInit == [blocks |-> NoBlocks, outcome |-> "none"]

AudioLocalsInit ==
    [num_samples |-> 0, output |-> <<>>, blocks |-> NoBlocks, total_read |-> 0,
     ret |-> 0, returned |-> FALSE, ready |-> 0, pending |-> <<>>, floor |-> 0]

\* ------------------------------------------------------------ the hosts
\* No DDSPProcessor has been constructed.
NoBinding == [block_size |-> 0, at |-> "none", calls |-> 0, out |-> <<>>]

\* The parameter indices of the plugin (enum Param).
P_F0 == 0
P_LOUDNESS == 1
P_PITCH_SHIFT == 2
P_HARMONIC_GAIN == 3
P_NOISE_GAIN == 4
P_OUTPUT_GAIN == 5
P_NUM == 6

UNITY_AUDIODSP_OK == "UNITY_AUDIODSP_OK"
UNITY_AUDIODSP_ERR_UNSUPPORTED == "UNITY_AUDIODSP_ERR_UNSUPPORTED"

\* No effect has been created: state->effectdata is null.
NoPlugin ==
    [p |-> [i \in 0..(P_NUM - 1) |-> 0], temp_buffer |-> 0, at |-> "none",
     length |-> 0, outchannels |-> 0, outbuffer |-> <<>>, samples_read |-> 0,
     result |-> UNITY_AUDIODSP_OK, value |-> 0,
     calls |-> 0]    \* how many parameter callbacks were made

\* ----------------------------------------------------- MidiInputProcessor
\* Sample rates are scaled as the host rates are: 100 stands for 48000, and
\* the hop of rate r is r * kModelHopSize / kModelSampleRate_Hz samples.
\* Velocities are in units of 1/127 (getFloatVelocity is data2 / 127), the
\* envelope level in units of 1/AdsrUnit, loudness_norm in units of
\* 1/(127 * AdsrUnit).
kPitchBendRange == 16384
kPitchBendBase == kPitchBendRange \div 2
kPitchRangePerSemitone == kPitchBendRange \div 4

\* 2^(n/12) for n = 0..11, in units of 1/10000.
SemitoneRatio ==
    <<10000, 10595, 11225, 11892, 12599, 13348, 14142, 14983, 15874, 16818, 17818, 18877>>

\* getFreqFromNoteAndBend, in cHz: kFreqA4_Hz * 2^((note - 69 + bend) / 12),
\* the bend (pitch_bend - 8192) / 4096 semitones rounded down to a whole
\* semitone.
getFreqFromNoteAndBend(midi_note, pitch_bend) ==
    LET semitones == (midi_note - kMidiNoteA4)
                       + ((pitch_bend - kPitchBendBase) \div kPitchRangePerSemitone)
        octave == semitones \div kSemitonesPerOctave
        base == (100 * kFreqA4_Hz * SemitoneRatio[(semitones % kSemitonesPerOctave) + 1])
                   \div 10000
    IN  IF octave >= 0 THEN base * Pow2(octave) ELSE base \div Pow2(0 - octave)

\* mapFromLog10: the place of the clamped frequency between the ends of the
\* pitch range on a logarithmic scale, in units of 1/127 (the ends are MIDI
\* notes 0 and 127), rounded down to a whole octave from A4.
mapFromLog10(freq_Hz) ==
    IF freq_Hz <= kPitchRangeMin_cHz THEN 0
    ELSE IF freq_Hz >= kPitchRangeMax_cHz THEN 127
    ELSE kSemitonesPerOctave * Log2Ratio(freq_Hz, 100 * kFreqA4_Hz) + kMidiNoteA4

\* juce::ADSR, the envelope generator adsr_ is (a library class: modelled
\* from its documented behaviour).  The level 1.0 is AdsrUnit; the default
\* parameters of the constructor are attack 0.01 s, decay 0.1 s, sustain
\* 0.7, release 0.2 s, here in samples at a sample rate.
AdsrUnit == 100 * 20
SustainLevel == (7 * AdsrUnit) \div 10
AttackSamples(sample_rate) == sample_rate \div 100
DecaySamples(sample_rate) == sample_rate \div 10
ReleaseSamples(sample_rate) == sample_rate \div 5

\* juce::ADSR::getRate: distance / (time * sampleRate), -1 for no time.
getRate(distance, samples) == IF samples > 0 THEN distance \div samples ELSE 0 - 1

\* juce::ADSR::reset: level 0, idle.
adsrReset(a) == [a EXCEPT !.envelopeVal = 0, !.state = "idle"]

\* juce::ADSR::goToNextState.
goToNextState(a) ==
    IF a.state = "attack"
    THEN [a EXCEPT !.state = IF a.decayRate > 0 THEN "decay" ELSE "sustain"]
    ELSE IF a.state = "decay" THEN [a EXCEPT !.state = "sustain"]
    ELSE IF a.state = "release" THEN adsrReset(a)
    ELSE a

\* adsr_.setSampleRate(sample_rate) and adsr_.setParameters(adsr_params_):
\* the rates are recalculated, and a stage that the new rates end is left.
adsrSetParameters(a, sample_rate) ==
    LET b == [a EXCEPT !.sampleRate = sample_rate,
                  !.attackRate = getRate(AdsrUnit, AttackSamples(sample_rate)),
                  !.decayRate = getRate(AdsrUnit - SustainLevel, DecaySamples(sample_rate)),
                  !.releaseRate = getRate(SustainLevel, ReleaseSamples(sample_rate))]
    IN  IF \/ b.state = "attack" /\ b.attackRate <= 0
           \/ b.state = "decay" /\ (b.decayRate <= 0 \/ b.envelopeVal <= SustainLevel)
           \/ b.state = "release" /\ b.releaseRate <= 0
        THEN goToNextState(b) ELSE b

\* juce::ADSR::noteOn: the attack starts from the level the envelope is at.
adsrNoteOn(a) ==
    IF a.attackRate > 0 THEN [a EXCEPT !.state = "attack"]
    ELSE IF a.decayRate > 0 THEN [a EXCEPT !.envelopeVal = AdsrUnit, !.state = "decay"]
    ELSE [a EXCEPT !.envelopeVal = SustainLevel, !.state = "sustain"]

\* juce::ADSR::noteOff: unless idle, the release starts from the level the
\* envelope is at, at the rate that takes it to zero in the release time
\* (rounded up to the model's unit).
adsrNoteOff(a) ==
    IF a.state = "idle" THEN a
    ELSE IF ReleaseSamples(a.sampleRate) > 0
    THEN [a EXCEPT !.releaseRate = CeilDiv(a.envelopeVal, ReleaseSamples(a.sampleRate)),
                   !.state = "release"]
    ELSE adsrReset(a)

\* juce::ADSR::getNextSample: the envelope one sample on; the level it
\* returns is envelopeVal of the result.
getNextSample(a) ==
    IF a.state = "attack"
    THEN IF a.envelopeVal + a.attackRate >= AdsrUnit
         THEN goToNextState([a EXCEPT !.envelopeVal = AdsrUnit])
         ELSE [a EXCEPT !.envelopeVal = @ + a.attackRate]
    ELSE IF a.state = "decay"
    THEN IF a.envelopeVal - a.decayRate <= SustainLevel
         THEN goToNextState([a EXCEPT !.envelopeVal = SustainLevel])
         ELSE [a EXCEPT !.envelopeVal = @ - a.decayRate]
    ELSE IF a.state = "sustain" THEN [a EXCEPT !.envelopeVal = SustainLevel]
    ELSE IF a.state = "release"
    THEN IF a.envelopeVal - a.releaseRate <= 0
         THEN goToNextState([a EXCEPT !.envelopeVal = @ - a.releaseRate])
         ELSE [a EXCEPT !.envelopeVal = @ - a.releaseRate]
    ELSE a

\* The envelope after n calls of getNextSample.
RECURSIVE getNextSamples(_, _)
getNextSamples(a, n) == IF n <= 0 THEN a ELSE getNextSamples(getNextSample(a), n - 1)

\* A MIDI message as bindings.cpp builds it: juce::MidiMessage(status, data1,
\* data2).  isNoteOn is a note-on status (0x9n) with a velocity that is not
\* 0; isNoteOff a note-off status (0x8n) or a note-on with velocity 0;
\* isPitchWheel the status 0xEn, its 14-bit value data1 | data2 << 7.
MidiMessage(status, data1, data2) == [status |-> status, data1 |-> data1, data2 |-> data2]
isNoteOn(message) == message.status \div 16 = 9 /\ message.data2 # 0
isNoteOff(message) ==
    message.status \div 16 = 8 \/ (message.status \div 16 = 9 /\ message.data2 = 0)
isPitchWheel(message) == message.status \div 16 = 14
getPitchWheelValue(message) == message.data1 + 128 * message.data2

\* The members the messages act on, as one record.
MidiState ==
    [current_midi_note_ |-> current_midi_note_, current_pitch_bend_ |-> current_pitch_bend_,
     current_midi_velocity_ |-> current_midi_velocity_, adsr_ |-> adsr_]

\* MidiInputProcessor::noteOn, noteOff and setPitchBend.
noteOn(m, midi_note, velocity) ==
    [m EXCEPT !.current_midi_note_ = midi_note, !.current_midi_velocity_ = velocity,
              !.adsr_ = adsrNoteOn(m.adsr_)]

\* noteOff as it would be if it did nothing.
noteOffIgnored(m) == m

noteOff(m) == [m EXCEPT !.adsr_ = adsrNoteOff(m.adsr_)]

setPitchBend(m, pitch_bend) == [m EXCEPT !.current_pitch_bend_ = pitch_bend]

\* The dispatch as it would be if the chain ended in an else that released.
handleMessageElseOff(m, message) ==
    IF isNoteOn(message) THEN noteOn(m, message.data1, message.data2)
    ELSE IF isPitchWheel(message) THEN setPitchBend(m, getPitchWheelValue(message))
    ELSE noteOff(m)

\* The body of the loop of processMidiBuffer, for one message.
handleMessage(m, message) ==
    IF isNoteOn(message) THEN noteOn(m, message.data1, message.data2)
    ELSE IF isNoteOff(message) THEN noteOff(m)
    ELSE IF isPitchWheel(message) THEN setPitchBend(m, getPitchWheelValue(message))
    ELSE m

RECURSIVE handleMessages(_, _)
handleMessages(m, midi_buffer) ==
    IF midi_buffer = <<>> THEN m
    ELSE handleMessages(handleMessage(m, Head(midi_buffer)), Tail(midi_buffer))

\* juce::ADSR as constructed, and after the constructor's setParameters.
AdsrInit ==
    adsrSetParameters([state |-> "idle", envelopeVal |-> 0, sampleRate |-> 100,
                       attackRate |-> 0, decayRate |-> 0, releaseRate |-> 0], 100)

FeaturesInit == [f0_hz |-> 0, loudness_db |-> 0, f0_norm |-> 0, loudness_norm |-> 0]

\* MidiInputProcessor::MidiInputProcessor: the default rate, its hop, note
\* A4, the wheel centred, velocity 0.
MidiInit ==
    /\ hop_size_ = (100 * kModelHopSize) \div kModelSampleRate_Hz
    /\ current_midi_note_ = kMidiNoteA4
    /\ current_pitch_bend_ = kPitchBendBase
    /\ current_midi_velocity_ = 0
    /\ adsr_ = AdsrInit
    /\ features = FeaturesInit

\* InferencePipeline::InferencePipeline, PredictControlsModel::PredictControlsModel
\* and HarmonicSynthesizer::HarmonicSynthesizer.
Init ==
    /\ sample_rate_ = 48000
    /\ user_frame_size_ = 0
    /\ user_hop_size_ = 0
    /\ model_ready_ = FALSE
    /\ model_loaded_ = FALSE
    /\ gruState_ = 0
    /\ interpreter_ = InterpreterInit
    /\ held = {}
    /\ MidiInit
    /\ noise_synth_ = NoiseSynthesizer(kNoiseAmpsSize, kModelHopSize)
    /\ binding = NoBinding
    /\ unity = NoPlugin
    /\ harmonic_synth_ = HarmonicInit
    /\ input_fifo_ = NoFifo
    /\ output_fifo_ = NoFifo
    /\ input_ring_buffer_ = <<>>
    /\ output_ring_buffer_ = <<>>
    /\ resampled_model_output_buffer_ = <<>>
    /\ f0_hz_ = 100 * kFreqA4_Hz
    /\ loudness_norm_ = 40
    /\ pitch_shift_semitones_ = 0
    /\ harmonic_gain_ = 1
    /\ noise_gain_ = 1
    /\ current_pitch_ = 0
    /\ current_rms_ = 0
    /\ predict_controls_input_ = AudioFeaturesInit
    /\ synthesis_input_ = SynthesisControlsInit
    /\ should_run_ = FALSE
    /\ pc = [ctl |-> "idle", worker |-> "none", audio |-> "idle"]
    /\ rl = [t \in RenderThreads |-> RenderLocalsInit]
    /\ al = AudioLocalsInit
    /\ rendered = 0
    /\ budget = MaxTicksControl
    /\ committed = <<>>
    /\ delivered = <<>>
    /\ cleanFloor = 0

\* A further render tick may start: fewer than MaxTicks hops were rendered.
TickBudget == rendered < budget * Max(user_hop_size_, 1)

\* ------------------------------------------------------ the control thread
\* prepareToPlay, loadModel, reset, stopTimer and startTimer are made by one
\* control thread, one at a time.  prepareToPlay and loadModel are made while
\* no worker exists (DDSPUnityPlugin.cpp 16-17 and 146-150, bindings.cpp
\* 14-17: prepare, load, and only then start); prepareToPlay and reset are
\* not made while the audio thread is inside getNextBlock.

\* reset() on the rings: both fifos reset, both buffers cleared, and then
\* zeroPadInputBuffer, which pushes user_frame_size_ zeros to the input ring.
zeroPadInputBuffer(fifo, frame) ==
    IF frame <= 0 \/ ~fifo.allocated THEN fifo
    ELSE LET b == prepareToWrite(fifo, frame) IN finishedWrite(fifo, b.size1 + b.size2)

resetFifo(fifo) == IF fifo.allocated THEN fifoReset(fifo) ELSE fifo

\* reset() as it would be had it forgotten the output ring.
resetOnKeepOutput(in_fifo, out_fifo, ring_size, hop, frame) ==
    /\ gruState_' = 0
    /\ harmonic_synth_' = HarmonicInit
    /\ resampled_model_output_buffer_' = Zeros(hop)
    /\ input_fifo_' = zeroPadInputBuffer(resetFifo(in_fifo), frame)
    /\ output_fifo_' = out_fifo
    /\ input_ring_buffer_' = Zeros(ring_size)
    /\ output_ring_buffer_' =
           IF Len(output_ring_buffer_) = ring_size THEN output_ring_buffer_
           ELSE Zeros(ring_size)
    /\ cleanFloor' = IF pc.worker = "none" THEN rendered ELSE cleanFloor
    /\ committed' = <<>>
    /\ delivered' = <<>>

\* InferencePipeline::reset, given the rings and buffers it is to work on.
resetOn(in_fifo, out_fifo, ring_size, hop, frame) ==
    /\ gruState_' = 0
    /\ harmonic_synth_' = HarmonicInit
    /\ resampled_model_output_buffer_' = Zeros(hop)
    /\ input_fifo_' = zeroPadInputBuffer(resetFifo(in_fifo), frame)
    /\ output_fifo_' = resetFifo(out_fifo)
    /\ input_ring_buffer_' = Zeros(ring_size)
    /\ output_ring_buffer_' = Zeros(ring_size)
    /\ cleanFloor' = IF pc.worker = "none" THEN rendered ELSE cleanFloor
    /\ committed' = <<>>
    /\ delivered' = <<>>

\* a / b rounded to the nearest integer, halves upwards (a, b positive).
Round(a, b) == (2 * a + b) \div (2 * b)

\* prepareToPlay as it would be with the frame size truncated like the hop.
prepareToPlayFloorFrame(sample_rate) ==
    /\ pc.ctl = "idle" /\ pc.worker = "none" /\ pc.audio = "idle"
    /\ sample_rate_' = sample_rate
    /\ user_frame_size_' = (sample_rate * kModelFrameSize) \div kModelSampleRate_Hz
    /\ user_hop_size_' = (sample_rate * kModelHopSize) \div kModelSampleRate_Hz
    /\ resetOn(NewFifo(kRingBufferSize), NewFifo(kRingBufferSize), kRingBufferSize,
               user_hop_size_', user_frame_size_')
    /\ UNCHANGED <<host, noise_synth_, midi, held, model_ready_, model_loaded_, interpreter_, params, feedback, controls,
                   should_run_, pc, rl, al, rendered, budget>>

\* prepareToPlay as it would be with the hop size rounded.
prepareToPlayRoundHop(sample_rate) ==
    /\ pc.ctl = "idle" /\ pc.worker = "none" /\ pc.audio = "idle"
    /\ sample_rate_' = sample_rate
    /\ user_frame_size_' = CeilDiv(sample_rate * kModelFrameSize, kModelSampleRate_Hz)
    /\ user_hop_size_' = Round(sample_rate * kModelHopSize, kModelSampleRate_Hz)
    /\ resetOn(NewFifo(kRingBufferSize), NewFifo(kRingBufferSize), kRingBufferSize,
               user_hop_size_', user_frame_size_')
    /\ UNCHANGED <<host, noise_synth_, midi, held, model_ready_, model_loaded_, interpreter_, params, feedback, controls,
                   should_run_, pc, rl, al, rendered, budget>>

prepareToPlay(sample_rate) ==
    /\ pc.ctl = "idle" /\ pc.worker = "none" /\ pc.audio = "idle"
    /\ sample_rate_' = sample_rate
    /\ user_frame_size_' = CeilDiv(sample_rate * kModelFrameSize, kModelSampleRate_Hz)
    /\ user_hop_size_' = (sample_rate * kModelHopSize) \div kModelSampleRate_Hz
    /\ resetOn(NewFifo(kRingBufferSize), NewFifo(kRingBufferSize), kRingBufferSize,
               user_hop_size_', user_frame_size_')
    /\ UNCHANGED <<host, noise_synth_, midi, held, model_ready_, model_loaded_, interpreter_, params, feedback, controls,
                   should_run_, pc, rl, al, rendered, budget>>

reset ==
    /\ pc.ctl = "idle" /\ pc.audio = "idle"
    /\ resetOn(input_fifo_, output_fifo_, Len(output_ring_buffer_),
               Len(resampled_model_output_buffer_), user_frame_size_)
    /\ UNCHANGED <<host, noise_synth_, midi, held, config, model_ready_, model_loaded_, interpreter_, params, feedback, controls,
                   should_run_, pc, rl, al, rendered, budget>>

\* InferencePipeline::loadModel over PredictControlsModel::loadModel, which
\* releases the old model first and resets the recurrent state on success.
loadModel(loaded) ==
    /\ pc.ctl = "idle" /\ pc.worker = "none" /\ output_fifo_.allocated
    /\ model_loaded_' = loaded
    /\ gruState_' = IF loaded THEN 0 ELSE gruState_
    /\ interpreter_' = InterpreterInit
    /\ \E fail \in IF loaded THEN {"none"} ELSE LoadFailures :
          held' = loadHandles(fail, TRUE)
    /\ model_ready_' = IF loaded THEN TRUE ELSE model_ready_
    /\ UNCHANGED <<host, noise_synth_, midi, config, harmonic_synth_, rings, resampled_model_output_buffer_,
                   params, feedback, controls, should_run_, pc, rl, al, rendered, history>>

\* releaseResources, which the destructor calls after stopTimer (lines 33-36).
releaseResources ==
    /\ pc.ctl = "idle" /\ pc.worker = "none"
    /\ model_ready_' = FALSE
    /\ UNCHANGED <<host, noise_synth_, midi, held, config, predictor, harmonic_synth_, rings,
                   resampled_model_output_buffer_, params, feedback, controls,
                   should_run_, pc, rl, al, rendered, history>>

\* startTimer as it would be without the test of the flag: a thread is
\* created at every call.
startTimerUnguarded ==
    /\ pc.ctl = "idle"
    /\ should_run_' = TRUE
    /\ pc' = [pc EXCEPT !.worker = "loop"]
    /\ UNCHANGED <<host, noise_synth_, midi, held, config, model_ready_, predictor, harmonic_synth_, rings,
                   resampled_model_output_buffer_, params, feedback, controls,
                   rl, al, rendered, history>>

startTimer ==
    /\ pc.ctl = "idle"
    /\ IF should_run_
       THEN UNCHANGED <<should_run_, pc>>
       ELSE /\ should_run_' = TRUE
            /\ pc' = [pc EXCEPT !.worker = "loop"]
    /\ UNCHANGED <<host, noise_synth_, midi, held, config, model_ready_, predictor, harmonic_synth_, rings,
                   resampled_model_output_buffer_, params, feedback, controls,
                   rl, al, rendered, history>>

\* stopTimer as it would be if it stored the flag and did not join.
stopTimerDetached ==
    /\ pc.ctl = "idle"
    /\ should_run_' = FALSE
    /\ UNCHANGED <<host, noise_synth_, midi, held, config, model_ready_, predictor, harmonic_synth_, rings,
                   resampled_model_output_buffer_, params, feedback, controls,
                   pc, rl, al, rendered, history>>

\* stopTimer up to the join, which waits for the worker to leave renderLoop.
stopTimer ==
    /\ pc.ctl = "idle"
    /\ should_run_' = FALSE
    /\ pc' = [pc EXCEPT !.ctl = IF pc.worker = "none" THEN "idle" ELSE "joining"]
    /\ UNCHANGED <<host, noise_synth_, midi, held, config, model_ready_, predictor, harmonic_synth_, rings,
                   resampled_model_output_buffer_, params, feedback, controls,
                   rl, al, rendered, history>>

\* render_thread_->join() returns; render_thread_.reset().
stopTimerJoined ==
    /\ pc.ctl = "joining" /\ pc.worker = "exited"
    /\ pc' = [pc EXCEPT !.ctl = "idle", !.worker = "none"]
    /\ UNCHANGED <<host, noise_synth_, midi, held, config, model_ready_, predictor, harmonic_synth_, rings,
                   resampled_model_output_buffer_, params, feedback, controls,
                   should_run_, rl, al, rendered, history>>

\* ~InferencePipeline: stopTimer (line 34) up to its join.
destructor ==
    /\ pc.ctl = "idle" /\ pc.audio = "idle"
    /\ should_run_' = FALSE
    /\ pc' = [pc EXCEPT !.ctl = IF pc.worker = "none" THEN "releasing" ELSE "destroying"]
    /\ UNCHANGED <<host, noise_synth_, midi, held, config, model_ready_, predictor, harmonic_synth_, rings,
                   resampled_model_output_buffer_, params, feedback, controls,
                   rl, al, rendered, history>>

\* The join inside the destructor's stopTimer returns.
destructorJoined ==
    /\ pc.ctl = "destroying" /\ pc.worker = "exited"
    /\ pc' = [pc EXCEPT !.ctl = "releasing", !.worker = "none"]
    /\ UNCHANGED <<host, noise_synth_, midi, held, config, model_ready_, predictor, harmonic_synth_, rings,
                   resampled_model_output_buffer_, params, feedback, controls,
                   should_run_, rl, al, rendered, history>>

\* The destructor's releaseResources (line 35); the object is gone after it.
destructorRelease ==
    /\ pc.ctl = "releasing"
    /\ model_ready_' = FALSE
    /\ pc' = [pc EXCEPT !.ctl = "destroyed"]
    /\ UNCHANGED <<host, noise_synth_, midi, held, config, predictor, harmonic_synth_, rings,
                   resampled_model_output_buffer_, params, feedback, controls,
                   should_run_, rl, al, rendered, history>>

\* triggerRender: the control thread enters render().  Its one caller has no
\* worker (bindings.cpp 14-17 and 86-89 never call startTimer).
triggerRender ==
    /\ pc.ctl = "idle" /\ pc.worker = "none" /\ TickBudget
    /\ pc' = [pc EXCEPT !.ctl = "render"]
    /\ UNCHANGED <<host, noise_synth_, midi, held, config, model_ready_, predictor, harmonic_synth_, rings,
                   resampled_model_output_buffer_, params, feedback, controls,
                   should_run_, rl, al, rendered, history>>

\* ------------------------------------------------------- the setters
\* Each setter is one atomic store; any thread may call it at any time.
\* std::clamp(v, lo, hi): (v < lo) ? lo : (hi < v) ? hi : v.
clamp(v, lo, hi) == IF Less(v, lo) THEN lo ELSE IF Less(hi, v) THEN hi ELSE v

\* loudness_dB / 80 + 1, in units of 1/80.
normalizedLoudness(loudness_dB) == IF loudness_dB = NaN THEN NaN ELSE loudness_dB + 80

setF0Hz(f0_hz) ==
    /\ f0_hz_' = clamp(f0_hz, kPitchRangeMin_cHz, kPitchRangeMax_cHz)
    /\ UNCHANGED <<host, noise_synth_, midi, held, config, model_ready_, predictor, harmonic_synth_, rings,
                   resampled_model_output_buffer_, loudness_norm_,
                   pitch_shift_semitones_, harmonic_gain_, noise_gain_, feedback,
                   controls, should_run_, pc, rl, al, rendered, history>>

setLoudnessNorm(loudness_norm) ==
    /\ loudness_norm_' = clamp(loudness_norm, 0, 80)
    /\ UNCHANGED <<host, noise_synth_, midi, held, config, model_ready_, predictor, harmonic_synth_, rings,
                   resampled_model_output_buffer_, f0_hz_,
                   pitch_shift_semitones_, harmonic_gain_, noise_gain_, feedback,
                   controls, should_run_, pc, rl, al, rendered, history>>

setLoudnessDb(loudness_db) ==
    /\ loudness_norm_' = clamp(normalizedLoudness(loudness_db), 0, 80)
    /\ UNCHANGED <<host, noise_synth_, midi, held, config, model_ready_, predictor, harmonic_synth_, rings,
                   resampled_model_output_buffer_, f0_hz_,
                   pitch_shift_semitones_, harmonic_gain_, noise_gain_, feedback,
                   controls, should_run_, pc, rl, al, rendered, history>>

setPitchShift(semitones) ==
    /\ pitch_shift_semitones_' = semitones
    /\ UNCHANGED <<host, noise_synth_, midi, held, config, model_ready_, predictor, harmonic_synth_, rings,
                   resampled_model_output_buffer_, f0_hz_, loudness_norm_,
                   harmonic_gain_, noise_gain_, feedback,
                   controls, should_run_, pc, rl, al, rendered, history>>

setHarmonicGain(gain) ==
    /\ harmonic_gain_' = clamp(gain, 0, 10)
    /\ UNCHANGED <<host, noise_synth_, midi, held, config, model_ready_, predictor, harmonic_synth_, rings,
                   resampled_model_output_buffer_, f0_hz_, loudness_norm_,
                   pitch_shift_semitones_, noise_gain_, feedback,
                   controls, should_run_, pc, rl, al, rendered, history>>

setNoiseGain(gain) ==
    /\ noise_gain_' = clamp(gain, 0, 10)
    /\ UNCHANGED <<host, noise_synth_, midi, held, config, model_ready_, predictor, harmonic_synth_, rings,
                   resampled_model_output_buffer_, f0_hz_, loudness_norm_,
                   pitch_shift_semitones_, harmonic_gain_, feedback,
                   controls, should_run_, pc, rl, al, rendered, history>>

\* --------------------------------------------------------- renderLoop
\* while (should_run_.load()) { render(); sleep }: the test of the flag.
renderLoop ==
    /\ pc.worker = "loop"
    /\ IF should_run_
       THEN TickBudget /\ pc' = [pc EXCEPT !.worker = "render"]
       ELSE pc' = [pc EXCEPT !.worker = "exited"]
    /\ UNCHANGED <<host, noise_synth_, midi, held, config, model_ready_, predictor, harmonic_synth_, rings,
                   resampled_model_output_buffer_, params, feedback, controls,
                   should_run_, rl, al, rendered, history>>

\* Where thread t goes when render() returns.
Returned(t) == IF t = "worker" THEN "loop" ELSE "idle"

\* render() as it would be without the test of model_ready_.
renderBeginUnchecked(t) ==
    /\ pc[t] = "render"
    /\ LET f0_hz == offsetPitch(f0_hz_, pitch_shift_semitones_)
           f0_norm == normalizedPitch(f0_hz)
       IN /\ current_pitch_' = f0_norm
          /\ current_rms_' = loudness_norm_
          /\ predict_controls_input_' =
                 [f0_hz |-> f0_hz, f0_norm |-> f0_norm,
                  loudness_norm |-> loudness_norm_,
                  loudness_db |-> denormalizeLoudness(loudness_norm_)]
          /\ pc' = [pc EXCEPT ![t] = "infer"]
          /\ rl' = [rl EXCEPT ![t] = [blocks |-> NoBlocks, outcome |-> "running"]]
    /\ UNCHANGED <<host, noise_synth_, midi, held, config, model_ready_, predictor, harmonic_synth_, rings,
                   resampled_model_output_buffer_, params, synthesis_input_,
                   should_run_, al, rendered, history>>

\* render() as it would be if it published the pitch before the shift.
renderBeginRawPitch(t) ==
    /\ pc[t] = "render"
    /\ IF ~model_ready_
       THEN /\ pc' = [pc EXCEPT ![t] = Returned(t)]
            /\ rl' = [rl EXCEPT ![t].outcome = "notready"]
            /\ UNCHANGED <<feedback, predict_controls_input_>>
       ELSE LET f0_hz == offsetPitch(f0_hz_, pitch_shift_semitones_)
                f0_norm == normalizedPitch(f0_hz)
            IN /\ current_pitch_' = normalizedPitch(f0_hz_)
               /\ current_rms_' = loudness_norm_
               /\ predict_controls_input_' =
                      [f0_hz |-> f0_hz, f0_norm |-> f0_norm,
                       loudness_norm |-> loudness_norm_,
                       loudness_db |-> denormalizeLoudness(loudness_norm_)]
               /\ pc' = [pc EXCEPT ![t] = "infer"]
               /\ rl' = [rl EXCEPT ![t] = [RenderLocalsInit EXCEPT !.outcome = "running"]]
    /\ UNCHANGED <<host, noise_synth_, midi, held, config, model_ready_, predictor, harmonic_synth_, rings,
                   resampled_model_output_buffer_, params, synthesis_input_,
                   should_run_, al, rendered, history>>

\* render(): the test of model_ready_, the loads of the parameters, the
\* feedback stores and the features.
renderBegin(t) ==
    /\ pc[t] = "render"
    /\ IF ~model_ready_
       THEN /\ pc' = [pc EXCEPT ![t] = Returned(t)]
            /\ rl' = [rl EXCEPT ![t].outcome = "notready"]
            /\ UNCHANGED <<feedback, predict_controls_input_>>
       ELSE LET f0_hz == offsetPitch(f0_hz_, pitch_shift_semitones_)
                f0_norm == normalizedPitch(f0_hz)
            IN /\ current_pitch_' = f0_norm
               /\ current_rms_' = loudness_norm_
               /\ predict_controls_input_' =
                      [f0_hz |-> f0_hz, f0_norm |-> f0_norm,
                       loudness_norm |-> loudness_norm_,
                       loudness_db |-> denormalizeLoudness(loudness_norm_)]
               /\ pc' = [pc EXCEPT ![t] = "infer"]
               /\ rl' = [rl EXCEPT ![t] = [RenderLocalsInit EXCEPT !.outcome = "running"]]
    /\ UNCHANGED <<host, noise_synth_, midi, held, config, model_ready_, predictor, harmonic_synth_, rings,
                   resampled_model_output_buffer_, params, synthesis_input_,
                   should_run_, al, rendered, history>>

\* PredictControlsModel::call, failing after `stage' of its output copies
\* (0: before any, at the input copies or the invoke; 3: at the state copy,
\* the last one).
FailStages == {0, 3}

callFailed(out, tensors, stage) ==
    [out EXCEPT !.amplitude = IF stage >= 1 THEN tensors.amplitude ELSE @,
                !.harmonics = IF stage >= 2 THEN tensors.harmonics ELSE @,
                !.noiseAmps = IF stage >= 3 THEN tensors.noiseAmps ELSE @]

\* The output of a successful call as it would be without the loop over the
\* harmonics.
callSucceededRaw(input, tensors) ==
    [amplitude |-> tensors.amplitude, harmonics |-> tensors.harmonics,
     noiseAmps |-> tensors.noiseAmps, f0_hz |-> input.f0_hz]

\* The output of a call that succeeds: the copies, then the loop that zeroes
\* each NaN harmonic and, with it, the amplitude; f0_hz is passed through.
callSucceeded(input, tensors) ==
    [amplitude |-> IF \E h \in 1..kHarmonicsSize : tensors.harmonics[h] = NaN
                   THEN 0 ELSE tensors.amplitude,
     harmonics |-> [h \in 1..kHarmonicsSize |->
                       IF tensors.harmonics[h] = NaN THEN 0 ELSE tensors.harmonics[h]],
     noiseAmps |-> tensors.noiseAmps, f0_hz |-> input.f0_hz]

\* What the interpreter holds after an invoke with these outputs.
Invoked(tensors, state) ==
    [state_in |-> gruState_, amplitude |-> tensors.amplitude,
     harmonics |-> tensors.harmonics, noiseAmps |-> tensors.noiseAmps, state |-> state]

\* call as it would be if it did not copy the state tensor back.
callStateless(ok, tensors, stage, state) ==
    IF ~model_loaded_ \/ "interpreter_" \notin held
    THEN /\ ~ok /\ stage = 0 /\ state = 0
         /\ UNCHANGED <<synthesis_input_, gruState_, interpreter_>>
    ELSE IF ok
    THEN /\ stage = 0
         /\ synthesis_input_' = callSucceeded(predict_controls_input_, tensors)
         /\ gruState_' = gruState_
         /\ interpreter_' = Invoked(tensors, state)
    ELSE /\ state = 0
         /\ synthesis_input_' = callFailed(synthesis_input_, tensors, stage)
         /\ gruState_' = gruState_
         /\ interpreter_' = IF stage = 0 THEN interpreter_ ELSE Invoked(tensors, state)

\* PredictControlsModel::call(predict_controls_input_, synthesis_input_): it
\* returns true when ok and the model is loaded.  ok: every copy and the
\* invoke succeed; tensors, state: what the invoke puts in the output tensors.
call(ok, tensors, stage, state) ==
    IF ~model_loaded_ \/ "interpreter_" \notin held
    THEN /\ ~ok /\ stage = 0 /\ state = 0
         /\ UNCHANGED <<synthesis_input_, gruState_, interpreter_>>
    ELSE IF ok
    THEN /\ stage = 0
         /\ synthesis_input_' = callSucceeded(predict_controls_input_, tensors)
         /\ gruState_' = state
         /\ interpreter_' = Invoked(tensors, state)
    ELSE /\ state = 0
         /\ synthesis_input_' = callFailed(synthesis_input_, tensors, stage)
         /\ gruState_' = gruState_
         /\ interpreter_' = IF stage = 0 THEN interpreter_ ELSE Invoked(tensors, state)

\* render() as it would be if it ignored the result of the predictor call.
renderInferIgnoreFailure(t) ==
    /\ pc[t] = "infer"
    /\ \E ok \in BOOLEAN, tensors \in TensorOutputs, stage \in FailStages, state \in 0..MaxGru :
          /\ call(ok, tensors, stage, state)
          /\ rl' = IF ok /\ model_loaded_ THEN rl ELSE [rl EXCEPT ![t].outcome = "failed"]
    /\ pc' = [pc EXCEPT ![t] = "synth"]
    /\ UNCHANGED <<host, noise_synth_, midi, held, config, model_ready_, model_loaded_, harmonic_synth_, rings,
                   resampled_model_output_buffer_, params, feedback,
                   predict_controls_input_, should_run_, al, rendered, history>>

renderInfer(t) ==
    /\ pc[t] = "infer"
    /\ \E ok \in BOOLEAN, tensors \in TensorOutputs, stage \in FailStages, state \in 0..MaxGru :
          /\ call(ok, tensors, stage, state)
          /\ IF ok /\ model_loaded_
             THEN /\ pc' = [pc EXCEPT ![t] = "synth"]
                  /\ rl' = rl
             ELSE /\ pc' = [pc EXCEPT ![t] = Returned(t)]
                  /\ rl' = [rl EXCEPT ![t].outcome = "failed"]
    /\ UNCHANGED <<host, noise_synth_, midi, held, config, model_ready_, model_loaded_, harmonic_synth_, rings,
                   resampled_model_output_buffer_, params, feedback,
                   predict_controls_input_, should_run_, al, rendered, history>>

\* The synthesis as it would be if it loaded f0 and the pitch shift again.
renderSynthReload(t) ==
    /\ pc[t] = "synth"
    /\ LET amplitude == synthesis_input_.amplitude * harmonic_gain_
           f0_hz == offsetPitch(f0_hz_, pitch_shift_semitones_)
           normalized == normalizeHarmonicDistribution(
                             synthesis_input_.harmonics, amplitude, f0_hz)
           hop == Len(resampled_model_output_buffer_)
       IN /\ synthesis_input_' =
                 [synthesis_input_ EXCEPT !.amplitude = amplitude,
                      !.noiseAmps = @ * noise_gain_, !.harmonics = normalized]
          /\ harmonic_synth_' = harmonicRender(harmonic_synth_, normalized, amplitude, f0_hz)
          /\ resampled_model_output_buffer_' = [i \in 1..hop |-> rendered + i]
          /\ rendered' = rendered + hop
    /\ pc' = [pc EXCEPT ![t] = "push"]
    /\ UNCHANGED <<host, noise_synth_, midi, held, config, model_ready_, predictor, rings, params, feedback,
                   predict_controls_input_, should_run_, rl, al, history>>

\* The gains, HarmonicSynthesizer::render (which normalizes the distribution
\* in place), the mix and the interpolator, which fills the hop buffer.
renderSynth(t) ==
    /\ pc[t] = "synth"
    /\ LET amplitude == synthesis_input_.amplitude * harmonic_gain_
           normalized == normalizeHarmonicDistribution(
                             synthesis_input_.harmonics, amplitude, synthesis_input_.f0_hz)
           hop == Len(resampled_model_output_buffer_)
       IN /\ synthesis_input_' =
                 [synthesis_input_ EXCEPT !.amplitude = amplitude,
                      !.noiseAmps = @ * noise_gain_, !.harmonics = normalized]
          /\ harmonic_synth_' =
                 harmonicRender(harmonic_synth_, normalized, amplitude, synthesis_input_.f0_hz)
          /\ resampled_model_output_buffer_' = [i \in 1..hop |-> rendered + i]
          /\ rendered' = rendered + hop
    /\ pc' = [pc EXCEPT ![t] = "push"]
    /\ UNCHANGED <<host, noise_synth_, midi, held, config, model_ready_, predictor, rings, params, feedback,
                   predict_controls_input_, should_run_, rl, al, history>>

\* The push as it would be if it wrote the whole hop whatever the free space.
renderPushUnclamped(t) ==
    /\ pc[t] = "push"
    /\ LET first == Min(output_fifo_.bufferSize - output_fifo_.validEnd, user_hop_size_)
           b == [start1 |-> output_fifo_.validEnd, size1 |-> first,
                 start2 |-> 0, size2 |-> user_hop_size_ - first]
       IN /\ output_ring_buffer_' = CopyToRing(output_ring_buffer_,
                                               resampled_model_output_buffer_, b)
          /\ rl' = [rl EXCEPT ![t].blocks = b]
    /\ pc' = [pc EXCEPT ![t] = "commit"]
    /\ UNCHANGED <<host, noise_synth_, midi, held, config, model_ready_, predictor, harmonic_synth_, input_fifo_,
                   output_fifo_, input_ring_buffer_, resampled_model_output_buffer_,
                   params, feedback, controls, should_run_, al, rendered, history>>

\* prepareToWrite(user_hop_size_, ...) and the two copies into the ring.
renderPush(t) ==
    /\ pc[t] = "push"
    /\ LET b == prepareToWrite(output_fifo_, user_hop_size_)
       IN /\ output_ring_buffer_' = CopyToRing(output_ring_buffer_,
                                               resampled_model_output_buffer_, b)
          /\ rl' = [rl EXCEPT ![t].blocks = b]
    /\ pc' = [pc EXCEPT ![t] = "commit"]
    /\ UNCHANGED <<host, noise_synth_, midi, held, config, model_ready_, predictor, harmonic_synth_, input_fifo_,
                   output_fifo_, input_ring_buffer_, resampled_model_output_buffer_,
                   params, feedback, controls, should_run_, al, rendered, history>>

\* The samples the two copies of a write put in the ring.
Written(ring, b) ==
    [i \in 1..(b.size1 + b.size2) |->
        IF i <= b.size1 THEN ring[b.start1 + i] ELSE ring[b.start2 + (i - b.size1)]]

\* The commit as it would be if it committed the hop, not what was written.
renderCommitWholeHop(t) ==
    /\ pc[t] = "commit"
    /\ output_fifo_' = finishedWrite(output_fifo_, user_hop_size_)
    /\ committed' = committed \o Written(output_ring_buffer_, rl[t].blocks)
    /\ rl' = [rl EXCEPT ![t] = [blocks |-> NoBlocks, outcome |-> "pushed"]]
    /\ pc' = [pc EXCEPT ![t] = Returned(t)]
    /\ UNCHANGED <<host, noise_synth_, midi, held, config, model_ready_, predictor, harmonic_synth_, input_fifo_,
                   input_ring_buffer_, output_ring_buffer_,
                   resampled_model_output_buffer_, params, feedback, controls,
                   should_run_, al, rendered, budget, delivered, cleanFloor>>

\* finishedWrite(size1 + size2), and render() returns.
renderCommit(t) ==
    /\ pc[t] = "commit"
    /\ output_fifo_' = finishedWrite(output_fifo_, rl[t].blocks.size1 + rl[t].blocks.size2)
    /\ committed' = committed \o Written(output_ring_buffer_, rl[t].blocks)
    /\ rl' = [rl EXCEPT ![t] = [blocks |-> NoBlocks, outcome |-> "pushed"]]
    /\ pc' = [pc EXCEPT ![t] = Returned(t)]
    /\ UNCHANGED <<host, noise_synth_, midi, held, config, model_ready_, predictor, harmonic_synth_, input_fifo_,
                   input_ring_buffer_, output_ring_buffer_,
                   resampled_model_output_buffer_, params, feedback, controls,
                   should_run_, al, rendered, budget, delivered, cleanFloor>>

\* ------------------------------------------------------ the audio thread
\* The samples committed and not yet returned: what the ring should hold.
Pending == SubSeq(committed, Len(delivered) + 1, Len(committed))

\* getNextBlock -> popFromOutputBuffer: the null test and prepareToRead.
getNextBlock(num_samples) ==
    /\ pc.audio = "idle"
    /\ LET entry == [AudioLocalsInit EXCEPT !.num_samples = num_samples,
                         !.output = [i \in 1..num_samples |-> Garbage],
                         !.floor = cleanFloor]
       IN IF ~output_fifo_.allocated
          THEN /\ al' = [entry EXCEPT !.ret = 0, !.returned = TRUE]
               /\ pc' = [pc EXCEPT !.audio = "done"]
          ELSE LET b == prepareToRead(output_fifo_, num_samples)
               IN /\ al' = [entry EXCEPT !.blocks = b,
                                !.total_read = b.size1 + b.size2,
                                !.ready = getNumReady(output_fifo_),
                                !.pending = Pending]
                  /\ pc' = [pc EXCEPT !.audio = "copy"]
    /\ UNCHANGED <<host, noise_synth_, midi, held, config, model_ready_, predictor, harmonic_synth_, rings,
                   resampled_model_output_buffer_, params, feedback, controls,
                   should_run_, rl, rendered, history>>

\* The copies as they would be under a lock the worker holds while it writes.
popCopyLocked ==
    /\ pc.audio = "copy" /\ pc.worker \notin {"push", "commit"}
    /\ al' = [al EXCEPT !.output = CopyFromRing(al.output, output_ring_buffer_, al.blocks)]
    /\ pc' = [pc EXCEPT !.audio = "finish"]
    /\ UNCHANGED <<host, noise_synth_, midi, held, config, model_ready_, predictor, harmonic_synth_, rings,
                   resampled_model_output_buffer_, params, feedback, controls,
                   should_run_, rl, rendered, history>>

\* The copies as they would be without the second one (the wrapped part).
popCopyFirstBlock ==
    /\ pc.audio = "copy"
    /\ al' = [al EXCEPT !.output = CopyFromRing(al.output, output_ring_buffer_,
                                                [al.blocks EXCEPT !.size2 = 0])]
    /\ pc' = [pc EXCEPT !.audio = "finish"]
    /\ UNCHANGED <<host, noise_synth_, midi, held, config, model_ready_, predictor, harmonic_synth_, rings,
                   resampled_model_output_buffer_, params, feedback, controls,
                   should_run_, rl, rendered, history>>

\* The two copies out of the ring.
popCopy ==
    /\ pc.audio = "copy"
    /\ al' = [al EXCEPT !.output = CopyFromRing(al.output, output_ring_buffer_, al.blocks)]
    /\ pc' = [pc EXCEPT !.audio = "finish"]
    /\ UNCHANGED <<host, noise_synth_, midi, held, config, model_ready_, predictor, harmonic_synth_, rings,
                   resampled_model_output_buffer_, params, feedback, controls,
                   should_run_, rl, rendered, history>>

\* The end of the pop as it would be without the fill with silence.
popFinishNoFill ==
    /\ pc.audio = "finish"
    /\ output_fifo_' = finishedRead(output_fifo_, al.total_read)
    /\ al' = [al EXCEPT !.ret = al.total_read, !.returned = TRUE]
    /\ delivered' = delivered \o SubSeq(al.output, 1, al.total_read)
    /\ pc' = [pc EXCEPT !.audio = "done"]
    /\ UNCHANGED <<host, noise_synth_, midi, held, config, model_ready_, predictor, harmonic_synth_, input_fifo_,
                   input_ring_buffer_, output_ring_buffer_,
                   resampled_model_output_buffer_, params, feedback, controls,
                   should_run_, rl, rendered, budget, committed, cleanFloor>>

\* The end of the pop as it would be if it released the request, not the read.
popFinishWholeRequest ==
    /\ pc.audio = "finish"
    /\ output_fifo_' = finishedRead(output_fifo_, al.num_samples)
    /\ al' = [al EXCEPT !.output = [i \in 1..al.num_samples |->
                                       IF i > al.total_read THEN 0 ELSE al.output[i]],
                        !.ret = al.total_read, !.returned = TRUE]
    /\ delivered' = delivered \o SubSeq(al.output, 1, al.total_read)
    /\ pc' = [pc EXCEPT !.audio = "done"]
    /\ UNCHANGED <<host, noise_synth_, midi, held, config, model_ready_, predictor, harmonic_synth_, input_fifo_,
                   input_ring_buffer_, output_ring_buffer_,
                   resampled_model_output_buffer_, params, feedback, controls,
                   should_run_, rl, rendered, budget, committed, cleanFloor>>

\* finishedRead(total_read), the fill of the rest with silence, the return.
popFinish ==
    /\ pc.audio = "finish"
    /\ output_fifo_' = finishedRead(output_fifo_, al.total_read)
    /\ al' = [al EXCEPT !.output = [i \in 1..al.num_samples |->
                                       IF i > al.total_read THEN 0 ELSE al.output[i]],
                        !.ret = al.total_read, !.returned = TRUE]
    /\ delivered' = delivered \o SubSeq(al.output, 1, al.total_read)
    /\ pc' = [pc EXCEPT !.audio = "done"]
    /\ UNCHANGED <<host, noise_synth_, midi, held, config, model_ready_, predictor, harmonic_synth_, input_fifo_,
                   input_ring_buffer_, output_ring_buffer_,
                   resampled_model_output_buffer_, params, feedback, controls,
                   should_run_, rl, rendered, budget, committed, cleanFloor>>

\* The caller has taken the block; the locals of the call are gone.
popReturned ==
    /\ pc.audio = "done"
    /\ al' = AudioLocalsInit
    /\ pc' = [pc EXCEPT !.audio = "idle"]
    /\ UNCHANGED <<host, noise_synth_, midi, held, config, model_ready_, predictor, harmonic_synth_, rings,
                   resampled_model_output_buffer_, params, feedback, controls,
                   should_run_, rl, rendered, history>>

\* ------------------------------------------------------ specifications
\* Every public operation, in every order the callers may make them.
Next ==
    \/ \E sample_rate \in HostRates : prepareToPlay(sample_rate)
    \/ \E loaded \in BOOLEAN : loadModel(loaded)
    \/ releaseResources
    \/ startTimer
    \/ stopTimer
    \/ stopTimerJoined
    \/ reset
    \/ triggerRender
    \/ renderLoop
    \/ \E t \in RenderThreads : renderBegin(t)
    \/ \E t \in RenderThreads : renderInfer(t)
    \/ \E t \in RenderThreads : renderSynth(t)
    \/ \E t \in RenderThreads : renderPush(t)
    \/ \E t \in RenderThreads : renderCommit(t)
    \/ \E num_samples \in 0..MaxReq : getNextBlock(num_samples)
    \/ popCopy
    \/ popFinish
    \/ popReturned

Spec == Init /\ [][Next]_vars

\* Streaming: the pipeline prepared, the model loaded and the worker started
\* (CreateCallback, DDSPUnityPlugin.cpp 131-150); from then on only the
\* render worker and the audio thread act.
Started(rates, ticks) ==
    /\ \E sample_rate \in rates :
          /\ sample_rate_ = sample_rate
          /\ user_frame_size_ = CeilDiv(sample_rate * kModelFrameSize, kModelSampleRate_Hz)
          /\ user_hop_size_ = (sample_rate * kModelHopSize) \div kModelSampleRate_Hz
    /\ model_ready_ = TRUE
    /\ model_loaded_ = TRUE
    /\ gruState_ = 0
    /\ interpreter_ = InterpreterInit
    /\ held = loadHandles("none", TRUE)
    /\ MidiInit
    /\ noise_synth_ = NoiseSynthesizer(kNoiseAmpsSize, kModelHopSize)
    /\ binding = NoBinding
    /\ unity = NoPlugin
    /\ harmonic_synth_ = HarmonicInit
    /\ input_fifo_ = zeroPadInputBuffer(NewFifo(kRingBufferSize), user_frame_size_)
    /\ output_fifo_ = NewFifo(kRingBufferSize)
    /\ input_ring_buffer_ = Zeros(kRingBufferSize)
    /\ output_ring_buffer_ = Zeros(kRingBufferSize)
    /\ resampled_model_output_buffer_ = Zeros(user_hop_size_)
    /\ f0_hz_ = 100 * kFreqA4_Hz
    /\ loudness_norm_ = 40
    /\ pitch_shift_semitones_ = 0
    /\ harmonic_gain_ = 1
    /\ noise_gain_ = 1
    /\ current_pitch_ = 0
    /\ current_rms_ = 0
    /\ predict_controls_input_ = AudioFeaturesInit
    /\ synthesis_input_ = SynthesisControlsInit
    /\ should_run_ = TRUE
    /\ pc = [ctl |-> "idle", worker |-> "loop", audio |-> "idle"]
    /\ rl = [t \in RenderThreads |-> RenderLocalsInit]
    /\ al = AudioLocalsInit
    /\ rendered = 0
    /\ budget = ticks
    /\ committed = <<>>
    /\ delivered = <<>>
    /\ cleanFloor = 0

InitStream == Started(HostRates, MaxTicks)

NextStream ==
    \/ renderLoop
    \/ renderBegin("worker")
    \/ renderInfer("worker")
    \/ renderSynth("worker")
    \/ renderPush("worker")
    \/ renderCommit("worker")
    \/ \E num_samples \in 0..MaxReq : getNextBlock(num_samples)
    \/ popCopy
    \/ popFinish
    \/ popReturned

SpecStream == InitStream /\ [][NextStream]_vars

\* The setters alone, with every kind of argument.
NextSetters ==
    \/ \E f0_hz \in F0Args : setF0Hz(f0_hz)
    \/ \E loudness_norm \in LoudnessArgs : setLoudnessNorm(loudness_norm)
    \/ \E loudness_db \in DbArgs : setLoudnessDb(loudness_db)
    \/ \E semitones \in ShiftArgs : setPitchShift(semitones)
    \/ \E gain \in GainArgs : setHarmonicGain(gain)
    \/ \E gain \in GainArgs : setNoiseGain(gain)

SpecSetters == Init /\ [][NextSetters]_vars

\* The worker ticking with the setters called meanwhile.
InitParams == Started({100}, MaxTicksControl)

NextParams ==
    \/ renderLoop
    \/ renderBegin("worker")
    \/ renderInfer("worker")
    \/ renderSynth("worker")
    \/ renderPush("worker")
    \/ renderCommit("worker")
    \/ setF0Hz(1254384)
    \/ setLoudnessNorm(80)
    \/ setLoudnessDb(0 - 40)
    \/ setPitchShift(12)
    \/ setHarmonicGain(2)
    \/ setNoiseGain(2)

SpecParams == InitParams /\ [][NextParams]_vars

\* Streaming with an audio thread that pops and calls the setters
\* (ProcessCallback and SetFloatParameterCallback).  The audio thread is
\* scheduled fairly; nothing is assumed of the worker, which may stay inside
\* the predictor call or asleep for ever.
NextAudio ==
    \/ NextStream
    \/ \E f0_hz \in {44000, 1254384} : setF0Hz(f0_hz)
    \/ setLoudnessNorm(40)
    \/ setLoudnessDb(0 - 40)
    \/ setPitchShift(0)
    \/ \E gain \in {1, 2} : setHarmonicGain(gain)
    \/ setNoiseGain(1)

SpecAudio ==
    /\ InitParams /\ [][NextAudio]_vars
    /\ WF_vars(popCopy) /\ WF_vars(popFinish) /\ WF_vars(popReturned)

\* The worker started, stopped, started again and, at the end, destroyed
\* (CreateCallback and ReleaseCallback of the plugin).  The worker thread is
\* scheduled fairly and a join returns once its thread has ended.
InitTimer == Started(HostRates, MaxTicksControl)

WorkerStep ==
    \/ renderLoop
    \/ renderBegin("worker")
    \/ renderInfer("worker")
    \/ renderSynth("worker")
    \/ renderPush("worker")
    \/ renderCommit("worker")

NextTimer ==
    \/ WorkerStep
    \/ startTimer
    \/ stopTimer
    \/ stopTimerJoined
    \/ destructor
    \/ destructorJoined
    \/ destructorRelease

SpecTimer ==
    /\ InitTimer /\ [][NextTimer]_vars
    /\ WF_vars(WorkerStep) /\ WF_vars(stopTimerJoined) /\ WF_vars(destructorJoined)

\* The predictor on its own: loaded, called and reset by its owner, with
\* output tensors that may hold NaN harmonics.
\* The recurrent states told apart when the predictor is checked on its own.
MaxState == 2

FirstNaN == [h \in 1..kHarmonicsSize |-> IF h = 1 THEN NaN ELSE 1]
LastNaN == [h \in 1..kHarmonicsSize |-> IF h = kHarmonicsSize THEN NaN ELSE 1]
AllNaN == [h \in 1..kHarmonicsSize |-> NaN]

PredictorTensors ==
    TensorOutputs \cup
    { [amplitude |-> AmpUnit, harmonics |-> FirstNaN, noiseAmps |-> 1],
      [amplitude |-> AmpUnit, harmonics |-> LastNaN, noiseAmps |-> 0],
      [amplitude |-> AmpUnit, harmonics |-> AllNaN, noiseAmps |-> 1] }

\* PredictControlsModel::loadModel: releaseResources, then on success
\* model_loaded_ = true and reset().
predictorLoadModel(fail, delegate) ==
    /\ model_loaded_' = (fail = "none")
    /\ gruState_' = IF fail = "none" THEN 0 ELSE gruState_
    /\ interpreter_' = InterpreterInit
    /\ held' = loadHandles(fail, delegate)
    /\ UNCHANGED <<host, noise_synth_, midi, config, model_ready_, harmonic_synth_, rings,
                   resampled_model_output_buffer_, params, feedback, controls,
                   should_run_, pc, rl, al, rendered, history>>

predictorCall ==
    /\ \E ok \in BOOLEAN, tensors \in PredictorTensors, stage \in FailStages,
          state \in 0..MaxState : call(ok, tensors, stage, state)
    /\ UNCHANGED <<host, noise_synth_, midi, held, config, model_ready_, model_loaded_, harmonic_synth_, rings,
                   resampled_model_output_buffer_, params, feedback,
                   predict_controls_input_, should_run_, pc, rl, al, rendered, history>>

\* PredictControlsModel::reset.
predictorReset ==
    /\ gruState_' = 0
    /\ UNCHANGED <<host, noise_synth_, midi, held, config, model_ready_, model_loaded_, interpreter_, harmonic_synth_,
                   rings, resampled_model_output_buffer_, params, feedback, controls,
                   should_run_, pc, rl, al, rendered, history>>

NextPredictor ==
    \/ \E fail \in LoadFailures \cup {"none"}, delegate \in BOOLEAN :
          predictorLoadModel(fail, delegate)
    \/ predictorCall
    \/ predictorReset

SpecPredictor == Init /\ [][NextPredictor]_vars

\* A pipeline prepared at host rates of which most give a frame and a hop
\* that are not whole numbers, loaded, and rendered on the caller's thread
\* (the path of the Python binding).
PrepareRates == {50, 75, 90, 100}

NextPrepare ==
    \/ \E sample_rate \in PrepareRates : prepareToPlay(sample_rate)
    \/ \E loaded \in BOOLEAN : loadModel(loaded)
    \/ triggerRender
    \/ renderBegin("ctl")
    \/ renderInfer("ctl")
    \/ renderSynth("ctl")
    \/ renderPush("ctl")
    \/ renderCommit("ctl")

SpecPrepare == Init /\ [][NextPrepare]_vars

\* ------------------------------------------------------------ properties
\* What the ready slots of the output ring hold, oldest first.
RingReady ==
    [i \in 1..getNumReady(output_fifo_) |->
        output_ring_buffer_[((output_fifo_.validStart + i - 1) % output_fifo_.bufferSize) + 1]]

\* C1: under-run safety.  A getNextBlock that found the output ring (once
\* prepareToPlay has made it) with no sample ready has returned 0 with every
\* position of the caller's buffer zero, and each of its steps can be taken
\* whatever the other threads are doing: it waits for nothing.
UnderRunSafety ==
    /\ (pc.audio = "done" /\ output_fifo_.allocated /\ al.ready = 0)
          => (al.ret = 0 /\ al.output = Zeros(al.num_samples))
    /\ (pc.audio = "idle") => \A n \in 0..MaxReq : ENABLED getNextBlock(n)
    /\ (pc.audio = "copy") => ENABLED popCopy
    /\ (pc.audio = "finish") => ENABLED popFinish

\* An under-run after samples were delivered: a request of at least one
\* sample met an empty ring.
WitnessUnderRun ==
    /\ pc.audio = "done" /\ output_fifo_.allocated
    /\ al.ready = 0 /\ al.num_samples > 0 /\ Len(delivered) > 0

\* C2: a getNextBlock of n samples that found r ready returns k = min(n, r),
\* the head of the buffer holds the k oldest committed samples, the rest of
\* it is zero, and the return lowers the number of ready samples by k.
PopContract ==
    [][(pc.audio = "finish" /\ pc'.audio = "done") =>
          LET k == Min(al.num_samples, al.ready)
          IN /\ al'.ret = k
             /\ Len(al'.output) = al.num_samples
             /\ \A i \in 1..k : al'.output[i] = al.pending[i]
             /\ \A i \in (k + 1)..al.num_samples : al'.output[i] = 0
             /\ getNumReady(output_fifo_') = getNumReady(output_fifo_) - k]_vars

\* A short read: fewer samples ready than asked for, and some of them.
WitnessShortPop ==
    pc.audio = "done" /\ al.ret > 0 /\ al.ret < al.num_samples /\ al.ret = al.ready

\* C3: at every moment the samples returned so far, followed by those the
\* ring still holds, are the samples the worker committed, in the order it
\* committed them: what was returned is a prefix of what was committed, with
\* no sample lost, doubled or out of place, and all of it once the ring is
\* drained.  (What was committed is itself in the order it was rendered.)
SpscOrder ==
    /\ delivered \o RingReady = committed
    /\ \A i, j \in 1..Len(committed) : i < j => committed[i] < committed[j]

\* The ring drained after more samples than it has slots went through it.
WitnessDrained ==
    /\ getNumReady(output_fifo_) = 0
    /\ Len(delivered) >= kRingBufferSize
    /\ delivered = committed

\* The state part of C4.
RingState ==
    /\ output_fifo_.allocated
    /\ output_fifo_.validStart \in 0..(output_fifo_.bufferSize - 1)
    /\ output_fifo_.validEnd \in 0..(output_fifo_.bufferSize - 1)
    /\ getNumReady(output_fifo_) \in 0..(Len(output_ring_buffer_) - 1)
    /\ (pc.audio \in {"copy", "finish"}) =>
          BlockSlots(al.blocks) \subseteq ReadySlots(output_fifo_)

\* The step part of C4.
RingAdvance ==
    /\ \E d \in 0..getNumReady(output_fifo_) :
          output_fifo_'.validStart = (output_fifo_.validStart + d) % output_fifo_.bufferSize
    /\ \E e \in 0..getFreeSpace(output_fifo_) :
          output_fifo_'.validEnd = (output_fifo_.validEnd + e) % output_fifo_.bufferSize

\* C4: the output ring invariant.  The number of ready samples stays between
\* 0 and the capacity of the ring, the read position only advances, by no
\* more than what is ready, and the write position only advances, by no more
\* than what is free (both modulo the size of the ring), and the slots the
\* consumer reads are slots the producer has committed.
RingInvariant == []RingState /\ [][RingAdvance]_vars

\* The consumer reading, in two blocks, samples that wrap around the end.
WitnessWrappedRead ==
    pc.audio = "finish" /\ al.blocks.size1 > 0 /\ al.blocks.size2 > 0

\* C5, the copy: the tick writes the first min(user_hop_size_, free space)
\* samples of the hop, in slots that hold no unread sample.
PushStep ==
    (pc.worker = "push" /\ pc'.worker = "commit") =>
       LET b == rl'.worker.blocks
           k == b.size1 + b.size2
       IN /\ k = Min(user_hop_size_, getFreeSpace(output_fifo_))
          /\ BlockSlots(b) \cap ReadySlots(output_fifo_) = {}
          /\ \A slot \in ReadySlots(output_fifo_) :
                output_ring_buffer_'[slot + 1] = output_ring_buffer_[slot + 1]
          /\ Written(output_ring_buffer_', b) = SubSeq(resampled_model_output_buffer_, 1, k)

\* C5, the commit: exactly what was written becomes ready, and the worker
\* goes back to its loop.
CommitStep ==
    (pc.worker = "commit" /\ pc'.worker # "commit") =>
       LET k == rl.worker.blocks.size1 + rl.worker.blocks.size2
       IN /\ getNumReady(output_fifo_') = getNumReady(output_fifo_) + k
          /\ committed' = committed \o SubSeq(resampled_model_output_buffer_, 1, k)
          /\ pc'.worker = "loop"
          /\ rl'.worker.outcome = "pushed"

\* C5: a tick whose predictor call succeeded commits min(user_hop_size_,
\* free space) samples: the whole hop when there is room, and otherwise the
\* head of the hop only, the tail being dropped, with no unread sample
\* overwritten and the worker carrying on.
HopCommit == [][PushStep /\ CommitStep]_vars

\* A tick about to commit a part of its hop: the ring had room for less.
WitnessTailDropped ==
    /\ pc.worker = "commit"
    /\ rl.worker.blocks.size1 + rl.worker.blocks.size2 > 0
    /\ rl.worker.blocks.size1 + rl.worker.blocks.size2 < user_hop_size_

\* C6: when prepareToPlay returns the output ring holds user_frame_size_
\* samples (of silence).
OutputRingPadded ==
    [][(\E sample_rate \in HostRates : prepareToPlay(sample_rate)) =>
          /\ getNumReady(output_fifo_') = user_frame_size_'
          /\ \A slot \in ReadySlots(output_fifo_') : output_ring_buffer_'[slot + 1] = 0]_vars

\* C7: when reset() touches the predictor, the synthesizers and the rings, no
\* worker is alive.
ResetStopsWorker == [][reset => pc.worker \in {"none", "exited"}]_vars

\* C8, the step: a reset() made with no worker leaves the recurrent state
\* zero, the harmonic synthesizer as constructed and the output ring empty.
CleanResetStep ==
    (reset /\ pc.worker = "none") =>
       /\ gruState_' = 0
       /\ harmonic_synth_' = HarmonicInit
       /\ getNumReady(output_fifo_') = 0
       /\ committed' = <<>>

\* C8, the state: no getNextBlock returns a sample rendered before the last
\* reset() made with no worker.
NoStaleSample ==
    (pc.audio = "done") => \A i \in 1..al.ret : al.output[i] \notin 1..cleanFloor

\* C8: after a reset() made with no worker running the recurrent state is
\* zero, the harmonic synthesizer is in its initial state, and no sample
\* rendered before the reset is returned by a later getNextBlock.
ResetDiscards == []NoStaleSample /\ [][CleanResetStep]_vars

\* A getNextBlock that returned samples after a reset that followed a render.
WitnessAfterReset ==
    pc.audio = "done" /\ al.ret > 0 /\ cleanFloor > 0 /\ pc.worker = "none"

\* C9: a tick whose predictor call fails ends there: the step that fails
\* leaves the output ring, its ready count and the harmonic synthesizer as
\* they were, and no tick that failed goes on to render or to write.
FailedTick ==
    []( \A t \in RenderThreads :
           (rl[t].outcome = "failed") => pc[t] \notin {"synth", "push", "commit"} )
    /\ [][ \A t \in RenderThreads :
              (pc[t] = "infer" /\ rl'[t].outcome = "failed") =>
                 /\ pc'[t] = Returned(t)
                 /\ UNCHANGED <<output_fifo_, output_ring_buffer_, harmonic_synth_,
                                resampled_model_output_buffer_, committed>> ]_vars

\* The worker back in its loop after a failed tick, with the ring empty.
WitnessFailedTick ==
    /\ pc.worker = "loop" /\ rl.worker.outcome = "failed"
    /\ getNumReady(output_fifo_) = 0 /\ rendered > 0

\* C10: while the model is not ready a render tick, of the worker or of
\* triggerRender, changes neither the rings, nor the synthesizer, nor the
\* predictor, nor the published pitch and loudness, and no step of any
\* thread makes more samples ready.
NotReadyTick ==
    []( ~model_ready_ =>
           \A t \in RenderThreads : pc[t] \notin {"infer", "synth", "push", "commit"} )
    /\ [][ /\ \A t \in RenderThreads :
                (pc[t] = "render" /\ ~model_ready_ /\ pc'[t] # "render") =>
                   /\ pc'[t] = Returned(t)
                   /\ UNCHANGED <<rings, harmonic_synth_, predictor, feedback,
                                  resampled_model_output_buffer_, controls, committed>>
           /\ (~model_ready_ /\ ~model_ready_' /\ output_fifo_.allocated) =>
                 getNumReady(output_fifo_') <= getNumReady(output_fifo_) ]_vars

\* Both kinds of tick found the model not ready, with samples in the ring.
WitnessNotReady ==
    /\ rl.worker.outcome = "notready" /\ rl.ctl.outcome = "notready"
    /\ ~model_ready_ /\ getNumReady(output_fifo_) > 0

\* The steps of a tick after the loads of f0, loudness and pitch shift.
InTick == {"infer", "synth", "push", "commit"}

\* The state part of C12: every step of the audio thread can be taken in
\* every state of the worker.
AudioStepsEnabled ==
    /\ (pc.audio = "idle") => \A n \in 0..MaxReq : ENABLED getNextBlock(n)
    /\ (pc.audio = "copy") => ENABLED popCopy
    /\ (pc.audio = "finish") => ENABLED popFinish
    /\ (pc.audio = "done") => ENABLED popReturned
    /\ ENABLED setF0Hz(44000) /\ ENABLED setLoudnessNorm(40) /\ ENABLED setLoudnessDb(0 - 40)
    /\ ENABLED setPitchShift(0) /\ ENABLED setHarmonicGain(1) /\ ENABLED setNoiseGain(1)

\* The step part of C12: getNextBlock goes forward only, through at most
\* three steps, and a setter is one step.
AudioStepsForward ==
    (pc'.audio # pc.audio) =>
        <<pc.audio, pc'.audio>> \in
            {<<"idle", "copy">>, <<"idle", "done">>, <<"copy", "finish">>,
             <<"finish", "done">>, <<"done", "idle">>}

\* C12: getNextBlock and the setters take no lock and wait for nothing.
\* Each of their steps can be taken whatever the worker is doing, a
\* getNextBlock is at most three steps and a setter one, and a getNextBlock
\* that has begun returns even if the worker never takes another step
\* (inside the predictor call, or asleep).
AudioNeverWaits ==
    /\ []AudioStepsEnabled
    /\ [][AudioStepsForward]_vars
    /\ ((pc.audio \in {"copy", "finish"}) ~> (pc.audio = "done"))

\* A getNextBlock that returned samples while the worker was inside the
\* predictor call.
WitnessPopDuringCall ==
    pc.audio = "done" /\ al.ret > 0 /\ pc.worker = "infer"

\* C14, the state: from its loads on, a tick works with the one value of f0,
\* pitch shift and loudness it loaded, whatever the setters store meanwhile.
OneLoadPerTick ==
    /\ (pc.worker \in InTick) =>
          /\ predict_controls_input_.f0_norm = normalizedPitch(predict_controls_input_.f0_hz)
          /\ predict_controls_input_.loudness_db =
                 denormalizeLoudness(predict_controls_input_.loudness_norm)
          /\ current_pitch_ = predict_controls_input_.f0_norm
          /\ current_rms_ = predict_controls_input_.loudness_norm
    /\ (pc.worker \in {"push", "commit"}) =>
          /\ synthesis_input_.f0_hz = predict_controls_input_.f0_hz
          /\ harmonic_synth_.previous_f0_ = SomeF0(predict_controls_input_.f0_hz)
          /\ harmonic_synth_.previous_amplitude_ = synthesis_input_.amplitude

\* C14, the steps: the loads take the values stored at that moment, and the
\* gains are applied once, with the values stored at that moment.
LoadSteps ==
    /\ (pc.worker = "render" /\ pc'.worker = "infer") =>
          /\ predict_controls_input_'.f0_hz = offsetPitch(f0_hz_, pitch_shift_semitones_)
          /\ predict_controls_input_'.loudness_norm = loudness_norm_
    /\ (pc.worker = "synth" /\ pc'.worker = "push") =>
          /\ synthesis_input_'.amplitude = synthesis_input_.amplitude * harmonic_gain_
          /\ synthesis_input_'.noiseAmps = synthesis_input_.noiseAmps * noise_gain_
    /\ (pc.worker \in InTick /\ pc'.worker = pc.worker) =>
          UNCHANGED <<predict_controls_input_, synthesis_input_, harmonic_synth_, feedback>>

\* C14: a tick loads each parameter once.  What it builds and renders comes
\* from the values stored when it loaded them; a setter that stores later
\* changes nothing of this tick and is seen by the loads of the next.
ParamsReadOnce == []OneLoadPerTick /\ [][LoadSteps]_vars

\* A tick after its loads, with f0 and the harmonic gain stored anew since.
WitnessSetterRaced ==
    /\ pc.worker = "push"
    /\ offsetPitch(f0_hz_, pitch_shift_semitones_) # predict_controls_input_.f0_hz
    /\ harmonic_gain_ = 2 /\ synthesis_input_.amplitude = AmpUnit

\* C15: after any setter calls the stored parameters are in their ranges.
ParamsInRange ==
    /\ harmonic_gain_ \in 0..10
    /\ noise_gain_ \in 0..10
    /\ f0_hz_ \in kPitchRangeMin_cHz..kPitchRangeMax_cHz
    /\ loudness_norm_ \in 0..80

\* C16: the f0 of the features a tick builds, which the predictor hands on to
\* the harmonic synthesizer, is in the pitch range.
FeaturesF0Clamped ==
    /\ (pc.worker \in InTick) =>
          predict_controls_input_.f0_hz \in kPitchRangeMin_cHz..kPitchRangeMax_cHz
    /\ (pc.worker \in {"push", "commit"}) =>
          harmonic_synth_.previous_f0_.value \in kPitchRangeMin_cHz..kPitchRangeMax_cHz

\* C11, the state: once stopTimer has returned (the flag is false and the
\* caller is out of the join) there is no worker, and the destructor is past
\* its join only with no worker.
StoppedMeansNoWorker ==
    /\ (pc.ctl = "idle" /\ ~should_run_) => pc.worker = "none"
    /\ (pc.ctl \in {"releasing", "destroyed"}) => pc.worker = "none"

\* C11, the steps: the worker leaves only at the test of the flag between two
\* ticks, a tick goes on whatever the flag is, nothing is committed while
\* there is no worker, and the resources are released with no worker.
TimerSteps ==
    /\ (pc.worker # "exited" /\ pc'.worker = "exited") =>
          (pc.worker = "loop" /\ ~should_run_)
    /\ (pc.worker \in InTick /\ pc'.worker # pc.worker) =>
          pc'.worker \in InTick \cup {"loop"}
    /\ (pc.worker = "none") =>
          (UNCHANGED <<output_fifo_, output_ring_buffer_, committed>> /\
           (pc'.worker # "none" => (startTimer /\ should_run_')))
    /\ (model_ready_ /\ ~model_ready_') => (pc.worker = "none" /\ ~should_run_)

\* C11: stopTimer stores false in the run flag and joins.  The worker tests
\* the flag only between ticks, so a tick in progress is finished (its hop is
\* committed); the join returns, and from then on there is no worker and
\* nothing is committed until startTimer.  The destructor releases the
\* resources only after the same join.
StopJoinsWorker ==
    /\ []StoppedMeansNoWorker
    /\ [][TimerSteps]_vars
    /\ ((pc.ctl = "joining") ~> (pc.ctl = "idle" /\ pc.worker = "none"))
    /\ ((pc.ctl = "joining" /\ pc.worker \in {"push", "commit"}) ~>
            (pc.worker = "loop" /\ rl.worker.outcome = "pushed"))
    /\ ((pc.ctl = "destroying") ~> (pc.ctl = "releasing" /\ pc.worker = "none"))

\* stopTimer has returned after a tick that was pushing when it was called:
\* the hop is committed and there is no worker.
WitnessStoppedAfterTick ==
    /\ pc.ctl = "idle" /\ ~should_run_ /\ pc.worker = "none"
    /\ rl.worker.outcome = "pushed" /\ Len(committed) = budget * user_hop_size_

\* C13: while a worker tick is in progress the harmonic synthesizer's state
\* (previous_phase_, previous_f0_, previous_amplitude_, the previous
\* distribution) is changed by steps of the worker only.
SynthOwnedByWorker ==
    [][(pc.worker \in InTick \cup {"render"} /\ harmonic_synth_' # harmonic_synth_) =>
          pc'.worker # pc.worker]_vars

RecurrentState ==
    [][/\ (gruState_' # gruState_) =>
             \/ \E tensors \in PredictorTensors, state \in 0..MaxState :
                   call(TRUE, tensors, 0, state)
             \/ predictorReset
             \/ \E delegate \in BOOLEAN : predictorLoadModel("none", delegate)
       /\ \A tensors \in PredictorTensors, state \in 0..MaxState :
             call(TRUE, tensors, 0, state) =>
                /\ interpreter_'.state_in = gruState_
                /\ gruState_' = interpreter_'.state
       /\ \A tensors \in PredictorTensors, stage \in FailStages :
             call(FALSE, tensors, stage, 0) => gruState_' = gruState_
       /\ predictorReset => gruState_' = 0
       /\ (\E delegate \in BOOLEAN : predictorLoadModel("none", delegate)) => gruState_' = 0]_vars

\* After two successful calls: the second was given the state the first left
\* and left another.
WitnessStateCarried ==
    model_loaded_ /\ interpreter_.state_in = MaxState /\ gruState_ = 0 /\ interpreter_.state = 0

\* C19: once prepared, user_frame_size_ is the least integer not below
\* sample_rate * 1024 / 16000, user_hop_size_ the greatest integer not above
\* sample_rate * 320 / 16000, and the hop buffer holds user_hop_size_ samples.
PreparedSizes ==
    output_fifo_.allocated =>
       /\ user_frame_size_ * kModelSampleRate_Hz >= sample_rate_ * kModelFrameSize
       /\ (user_frame_size_ - 1) * kModelSampleRate_Hz < sample_rate_ * kModelFrameSize
       /\ user_hop_size_ * kModelSampleRate_Hz <= sample_rate_ * kModelHopSize
       /\ (user_hop_size_ + 1) * kModelSampleRate_Hz > sample_rate_ * kModelHopSize
       /\ Len(resampled_model_output_buffer_) = user_hop_size_

\* Prepared at a rate where neither quotient is whole (4.8 and 1.5).
WitnessFractionalRate ==
    /\ output_fifo_.allocated /\ sample_rate_ = 75
    /\ user_frame_size_ = 5 /\ user_hop_size_ = 1

\* The samples a tick renders and the samples its commit adds to the ring.
Produced == rendered' - rendered
Pushed == getNumReady(output_fifo_') - getNumReady(output_fifo_)

\* C20 as stated: a tick renders and pushes round(sample_rate * 320 / 16000)
\* samples.
HopRounded ==
    [][\A t \in RenderThreads :
          /\ (pc[t] = "synth" /\ pc'[t] = "push") =>
                Produced = Round(sample_rate_ * kModelHopSize, kModelSampleRate_Hz)
          /\ (pc[t] = "commit" /\ pc'[t] # "commit") =>
                Pushed = Round(sample_rate_ * kModelHopSize, kModelSampleRate_Hz)]_vars

\* C20 amended: a tick renders floor(sample_rate * 320 / 16000) samples, and
\* pushes as many when the ring has room for them.
HopFloored ==
    [][\A t \in RenderThreads :
          /\ (pc[t] = "synth" /\ pc'[t] = "push") =>
                Produced = (sample_rate_ * kModelHopSize) \div kModelSampleRate_Hz
          /\ (pc[t] = "commit" /\ pc'[t] # "commit" /\
              getFreeSpace(output_fifo_) >= user_hop_size_) =>
                Pushed = (sample_rate_ * kModelHopSize) \div kModelSampleRate_Hz]_vars

\* A tick at a rate whose hop is 1.8 samples has pushed one sample.
WitnessFractionalHop ==
    /\ sample_rate_ = 90 /\ pc.ctl = "idle" /\ rl.ctl.outcome = "pushed"
    /\ getNumReady(output_fifo_) = 1 /\ Len(committed) = 1

\* C22: a loadModel in which any step fails (the model file, the interpreter
\* options, the interpreter, the tensor allocation, a missing named tensor)
\* leaves the predictor with no handle and not loaded; and while the
\* predictor is in that condition every call returns false and leaves its
\* output argument and the recurrent state as they were.
LoadFailureClean ==
    /\ [](model_loaded_ => {"model_", "interpreter_options_", "interpreter_"} \subseteq held)
    /\ [][/\ \A fail \in LoadFailures, delegate \in BOOLEAN :
               predictorLoadModel(fail, delegate) => (held' = {} /\ ~model_loaded_')
          /\ (held = {}) =>
                 \A ok \in BOOLEAN, tensors \in PredictorTensors, stage \in FailStages,
                    state \in 0..MaxState :
                    call(ok, tensors, stage, state) =>
                       (~ok /\ synthesis_input_' = synthesis_input_ /\ gruState_' = gruState_)]_vars

\* A load failed on a predictor that had been loaded and called: the state
\* the call left is still there, the handles are gone.
WitnessLoadFailed == ~model_loaded_ /\ held = {} /\ gruState_ # 0

\* ------------------------------------------- prepareToPlay, any argument
\* prepareToPlay takes any double: these are the sample rates a caller can
\* pass that are not rates.  (samples_per_block is stored and never read.)
InvalidRates == {0}

NextPrepareAny ==
    \/ \E sample_rate \in InvalidRates : prepareToPlay(sample_rate)
    \/ NextPrepare

SpecPrepareAny == Init /\ [][NextPrepareAny]_vars

\* C21: a prepareToPlay with a sample rate that is zero or negative is
\* rejected: the pipeline is never left prepared (rings allocated) with a
\* sample rate, a frame size or a hop size that is not positive.
PreparedPositive ==
    output_fifo_.allocated =>
        sample_rate_ > 0 /\ user_frame_size_ > 0 /\ user_hop_size_ > 0

\* ------------------------------------------- the harmonic synthesizer alone
\* HarmonicSynthesizer::render and reset called in any order, as a test of
\* the synthesizer calls them.  synthesis_input_ is the caller's controls:
\* render normalizes the distribution it is given in place.  `rendered'
\* counts the samples rendered; at most MaxRenders hops are.
MaxRenders == 3

\* The arguments: distributions of non-negative coefficients (what the
\* predictor's output layer emits), an amplitude every sum of which divides,
\* and 440 Hz, 4400 Hz (the second harmonic is above Nyquist) and 8800 Hz
\* (both are), in cHz.
HarmonicDistributions == {AllZero, AllOnes, <<1, 2>>, <<0, 1>>}
HarmonicAmplitudes == {0, 2 * AmpUnit}
HarmonicF0s == {100 * kFreqA4_Hz, 1000 * kFreqA4_Hz, 2000 * kFreqA4_Hz}

synthRender(harmonic_distribution, amplitude, f0_hz) ==
    /\ rendered < MaxRenders * kModelHopSize
    /\ LET normalized == normalizeHarmonicDistribution(harmonic_distribution, amplitude, f0_hz)
       IN /\ synthesis_input_' =
                 [synthesis_input_ EXCEPT !.amplitude = amplitude, !.f0_hz = f0_hz,
                                         !.harmonics = normalized]
          /\ harmonic_synth_' = harmonicRender(harmonic_synth_, normalized, amplitude, f0_hz)
    /\ rendered' = rendered + kModelHopSize
    /\ UNCHANGED <<host, noise_synth_, midi, held, config, model_ready_, predictor, rings,
                   resampled_model_output_buffer_, params, feedback,
                   predict_controls_input_, should_run_, pc, rl, al, history>>

synthReset ==
    /\ harmonic_synth_' = HarmonicInit
    /\ UNCHANGED <<host, noise_synth_, midi, held, config, model_ready_, predictor, rings,
                   resampled_model_output_buffer_, params, feedback, controls,
                   should_run_, pc, rl, al, rendered, history>>

NextHarmonic ==
    \/ \E harmonic_distribution \in HarmonicDistributions, amplitude \in HarmonicAmplitudes,
          f0_hz \in HarmonicF0s : synthRender(harmonic_distribution, amplitude, f0_hz)
    \/ synthReset

SpecHarmonic == Init /\ [][NextHarmonic]_vars

\* C24: in every render of any sequence of renders, a harmonic k whose
\* frequency k * f0_hz is at or above Nyquist (half the model sample rate)
\* adds zero to every sample of the hop, whatever its coefficient.
NyquistSilent ==
    [][\A harmonic_distribution \in HarmonicDistributions, amplitude \in HarmonicAmplitudes,
          f0_hz \in HarmonicF0s :
          synthRender(harmonic_distribution, amplitude, f0_hz) =>
             \A k \in 1..kHarmonicsSize :
                (2 * (k * f0_hz) >= 100 * kModelSampleRate_Hz) =>
                   \A i \in 0..(kModelHopSize - 1) :
                      contributesZero(harmonic_synth_, synthesis_input_'.harmonics,
                                      f0_hz, k, i)]_vars

\* The sum of the coefficients of the harmonics that are below Nyquist at f0_hz.
survivingSum(harmonic_distribution, f0_hz) ==
    SumSeq([k \in 1..kHarmonicsSize |->
               IF 2 * (k * f0_hz) < 100 * kModelSampleRate_Hz
               THEN harmonic_distribution[k] ELSE 0], kHarmonicsSize)

\* C25: the distribution as a render leaves it (normalized in place): when a
\* harmonic below Nyquist has a nonzero coefficient, the coefficients sum to
\* the amplitude; when the coefficients below Nyquist sum to zero, every
\* coefficient is zero.
NormalizedSum ==
    [][\A harmonic_distribution \in HarmonicDistributions, amplitude \in HarmonicAmplitudes,
          f0_hz \in HarmonicF0s :
          synthRender(harmonic_distribution, amplitude, f0_hz) =>
             /\ (\E k \in 1..kHarmonicsSize :
                    /\ 2 * (k * f0_hz) < 100 * kModelSampleRate_Hz
                    /\ harmonic_distribution[k] # 0)
                   => SumSeq(synthesis_input_'.harmonics, kHarmonicsSize) = amplitude
             /\ (survivingSum(harmonic_distribution, f0_hz) = 0)
                   => synthesis_input_'.harmonics = AllZero]_vars

\* A render at 4400 Hz of a distribution with both coefficients nonzero: the
\* second was cut and the first carries the whole amplitude.
WitnessNormalizedCut ==
    /\ rendered > 0
    /\ synthesis_input_.f0_hz = 1000 * kFreqA4_Hz
    /\ synthesis_input_.harmonics = <<2 * AmpUnit, 0>>

\* C26: previous_f0_ is absent after construction and after reset(), and
\* otherwise holds the f0 of the render before (synthesis_input_.f0_hz, which
\* that render was given).  In a render with previous_f0_ absent the
\* frequency envelope is f0_hz at every sample; in every other render it is
\* the f0 of the render before at sample 0, moves by the same step from each
\* sample to the next over the first half of the hop, and is f0_hz from
\* sample L/2 to the last.
MidwayEnvelope ==
    /\ [](/\ (rendered = 0) => ~harmonic_synth_.previous_f0_.has
          /\ harmonic_synth_.previous_f0_.has =>
                (harmonic_synth_.previous_f0_.value = synthesis_input_.f0_hz))
    /\ [][/\ synthReset => ~harmonic_synth_'.previous_f0_.has
          /\ \A harmonic_distribution \in HarmonicDistributions,
                amplitude \in HarmonicAmplitudes, f0_hz \in HarmonicF0s :
                synthRender(harmonic_distribution, amplitude, f0_hz) =>
                   /\ harmonic_synth_'.previous_f0_ = SomeF0(f0_hz)
                   /\ ~harmonic_synth_.previous_f0_.has =>
                         \A i \in 0..(kModelHopSize - 1) :
                            frequencyEnvelope(harmonic_synth_, f0_hz, i) = f0_hz * HalfHop
                   /\ harmonic_synth_.previous_f0_.has =>
                         /\ frequencyEnvelope(harmonic_synth_, f0_hz, 0)
                               = synthesis_input_.f0_hz * HalfHop
                         /\ \A i \in 0..(HalfHop - 1) :
                               frequencyEnvelope(harmonic_synth_, f0_hz, i + 1)
                                  - frequencyEnvelope(harmonic_synth_, f0_hz, i)
                               = f0_hz - synthesis_input_.f0_hz
                         /\ \A i \in HalfHop..(kModelHopSize - 1) :
                               frequencyEnvelope(harmonic_synth_, f0_hz, i) = f0_hz * HalfHop]_vars

\* Two renders, at 440 Hz and then at 4400 Hz: the phase the second left is
\* that of a hop at 440 Hz followed by a hop that glides from 440 to 4400 Hz.
WitnessGlide ==
    /\ rendered = 2 * kModelHopSize
    /\ harmonic_synth_.previous_f0_ = SomeF0(1000 * kFreqA4_Hz)
    /\ harmonic_synth_.previous_phase_ =
          (PhaseSum(100 * kFreqA4_Hz, 100 * kFreqA4_Hz, kModelHopSize)
             + PhaseSum(100 * kFreqA4_Hz, 1000 * kFreqA4_Hz, kModelHopSize)) % PhaseModulus

\* C27: the stored previous_phase_ is always in [0, 2*pi); after a render it
\* is the phase of the hop's last sample modulo 2*pi; and in whatever render
\* comes next the phase of the first sample is that stored phase plus the
\* phase increment of that sample.
PhaseContinuity ==
    /\ [](harmonic_synth_.previous_phase_ \in 0..(PhaseModulus - 1))
    /\ [][\A harmonic_distribution \in HarmonicDistributions,
             amplitude \in HarmonicAmplitudes, f0_hz \in HarmonicF0s :
             synthRender(harmonic_distribution, amplitude, f0_hz) =>
                /\ harmonic_synth_'.previous_phase_
                      = phases(harmonic_synth_, f0_hz, kModelHopSize - 1)
                /\ \A next_f0_hz \in HarmonicF0s :
                      phases(harmonic_synth_', next_f0_hz, 0)
                        = (harmonic_synth_'.previous_phase_
                             + frequencyEnvelope(harmonic_synth_', next_f0_hz, 0))
                          % PhaseModulus]_vars

\* Three renders, the last at 440 Hz: the phase has gone round more than
\* once and the stored remainder is not zero.
WitnessPhaseWrapped ==
    /\ rendered = 3 * kModelHopSize
    /\ harmonic_synth_.previous_f0_ = SomeF0(100 * kFreqA4_Hz)
    /\ harmonic_synth_.previous_phase_ # 0

\* ------------------------------------------------ the samples by value
\* Whether the hop synthesized from these controls is silence.  The harmonic
\* part of sample i is the sum over k of sin(k * phase) times the amplitude
\* envelope of harmonic k, zero when every envelope is; the noise part is
\* fresh noise filtered by the noise magnitudes, zero when the magnitudes
\* are; the resampler is linear and has seen nothing but this stream.
silentHop(h, normalized, noiseAmps) ==
    /\ noiseAmps = 0
    /\ \A k \in 1..kHarmonicsSize : \A i \in 0..(kModelHopSize - 1) :
          harmonicAmplitude(h, normalized, k, i) = 0

\* The synthesis as it would be if the gains were added to the controls.
renderSynthOffsetGains(t) ==
    /\ pc[t] = "synth"
    /\ LET amplitude == synthesis_input_.amplitude + harmonic_gain_
           normalized == normalizeHarmonicDistribution(
                             synthesis_input_.harmonics, amplitude, synthesis_input_.f0_hz)
           noiseAmps == synthesis_input_.noiseAmps + noise_gain_
           hop == Len(resampled_model_output_buffer_)
       IN /\ synthesis_input_' =
                 [synthesis_input_ EXCEPT !.amplitude = amplitude,
                      !.noiseAmps = noiseAmps, !.harmonics = normalized]
          /\ harmonic_synth_' =
                 harmonicRender(harmonic_synth_, normalized, amplitude, synthesis_input_.f0_hz)
          /\ resampled_model_output_buffer_' =
                 [i \in 1..hop |->
                     IF silentHop(harmonic_synth_, normalized, noiseAmps) THEN 0
                     ELSE rendered + i]
          /\ rendered' = rendered + hop
    /\ pc' = [pc EXCEPT ![t] = "push"]
    /\ UNCHANGED <<host, noise_synth_, midi, held, config, model_ready_, predictor, rings, params, feedback,
                   predict_controls_input_, should_run_, rl, al, history>>

\* render() from the gains to the resampled hop, as renderSynth, with the
\* samples by value: 0 for a sample that is zero, its place in the stream
\* (not 0) for any other.
renderSynthValue(t) ==
    /\ pc[t] = "synth"
    /\ LET amplitude == synthesis_input_.amplitude * harmonic_gain_
           normalized == normalizeHarmonicDistribution(
                             synthesis_input_.harmonics, amplitude, synthesis_input_.f0_hz)
           noiseAmps == synthesis_input_.noiseAmps * noise_gain_
           hop == Len(resampled_model_output_buffer_)
       IN /\ synthesis_input_' =
                 [synthesis_input_ EXCEPT !.amplitude = amplitude,
                      !.noiseAmps = noiseAmps, !.harmonics = normalized]
          /\ harmonic_synth_' =
                 harmonicRender(harmonic_synth_, normalized, amplitude, synthesis_input_.f0_hz)
          /\ resampled_model_output_buffer_' =
                 [i \in 1..hop |->
                     IF silentHop(harmonic_synth_, normalized, noiseAmps) THEN 0
                     ELSE rendered + i]
          /\ rendered' = rendered + hop
    /\ pc' = [pc EXCEPT ![t] = "push"]
    /\ UNCHANGED <<host, noise_synth_, midi, held, config, model_ready_, predictor, rings, params, feedback,
                   predict_controls_input_, should_run_, rl, al, history>>

\* The predictor of the silent test: whatever it is given, its output
\* tensors hold amplitude 0, harmonics 0 and noise magnitudes 0.
SilentPredictor ==
    interpreter_.amplitude = 0 /\ interpreter_.harmonics = AllZero /\ interpreter_.noiseAmps = 0

\* The call of render() to that predictor.  Streaming with it: the worker renders, the audio thread pops,
\* the control thread sets the gains.
renderInferSilent(t) == renderInfer(t) /\ SilentPredictor'

NextSilent ==
    \/ renderLoop
    \/ renderBegin("worker")
    \/ renderInferSilent("worker")
    \/ renderSynthValue("worker")
    \/ renderPush("worker")
    \/ renderCommit("worker")
    \/ \E num_samples \in 0..MaxReq : getNextBlock(num_samples)
    \/ popCopy
    \/ popFinish
    \/ popReturned
    \/ setHarmonicGain(2)
    \/ setNoiseGain(2)

\* At the host rate whose hops overflow the ring within MaxTicks ticks.
InitSilent == Started({100}, MaxTicks)

SpecSilent == InitSilent /\ [][NextSilent]_vars

\* C23: with a predictor that returns amplitude 0, harmonics 0 and noise
\* magnitudes 0 on every hop, every sample getNextBlock returns is 0,
\* however many ticks were rendered: the samples read from the ring and the
\* rest of the block alike.
SilentOutput ==
    /\ \A i \in 1..Len(delivered) : delivered[i] = 0
    /\ (pc.audio = "done") => \A i \in 1..al.num_samples : al.output[i] = 0

\* A block came back with samples read from the ring after the worker had
\* rendered more than the ring holds and lost the tail of a hop.
WitnessSilentOverflow ==
    /\ pc.audio = "done" /\ al.ret > 0
    /\ rendered > kRingBufferSize
    /\ Len(committed) < rendered /\ pc.worker = "loop"

\* ------------------------------------------------ the MIDI source alone
\* The MidiInputProcessor as bindings.cpp drives it: prepareToPlay, then
\* buffers of messages and calls of getCurrentPredictControlsInput in any
\* order, and reset.  The pipeline is left as constructed.  `budget' is the
\* number of messages, prepareToPlay and reset calls still to come.
pipeline == <<binding, unity, noise_synth_, config, model_ready_, predictor, held, harmonic_synth_, rings,
              resampled_model_output_buffer_, params, feedback, controls,
              should_run_, pc, rl, al, rendered, committed, delivered, cleanFloor>>

MaxMessages == 4
MaxBuffer == 2
MidiRates == {100, 200}

\* Note-on A4 at full velocity, note-on A5 at half, note-on with velocity 0,
\* note-off, the wheel a semitone up and centred, and a control change.
MidiMessages ==
    { MidiMessage(144, kMidiNoteA4, 127), MidiMessage(144, kMidiNoteA4 + 12, 64),
      MidiMessage(144, kMidiNoteA4, 0), MidiMessage(128, kMidiNoteA4, 0),
      MidiMessage(224, 0, 96), MidiMessage(224, 0, 64), MidiMessage(176, 7, 100) }

MidiBuffers == UNION { [1..n -> MidiMessages] : n \in 0..MaxBuffer }

InitMidi ==
    /\ sample_rate_ = 48000
    /\ user_frame_size_ = 0
    /\ user_hop_size_ = 0
    /\ model_ready_ = FALSE
    /\ model_loaded_ = FALSE
    /\ gruState_ = 0
    /\ interpreter_ = InterpreterInit
    /\ held = {}
    /\ MidiInit
    /\ noise_synth_ = NoiseSynthesizer(kNoiseAmpsSize, kModelHopSize)
    /\ binding = NoBinding
    /\ unity = NoPlugin
    /\ harmonic_synth_ = HarmonicInit
    /\ input_fifo_ = NoFifo
    /\ output_fifo_ = NoFifo
    /\ input_ring_buffer_ = <<>>
    /\ output_ring_buffer_ = <<>>
    /\ resampled_model_output_buffer_ = <<>>
    /\ f0_hz_ = 100 * kFreqA4_Hz
    /\ loudness_norm_ = 40
    /\ pitch_shift_semitones_ = 0
    /\ harmonic_gain_ = 1
    /\ noise_gain_ = 1
    /\ current_pitch_ = 0
    /\ current_rms_ = 0
    /\ predict_controls_input_ = AudioFeaturesInit
    /\ synthesis_input_ = SynthesisControlsInit
    /\ should_run_ = FALSE
    /\ pc = [ctl |-> "idle", worker |-> "none", audio |-> "idle"]
    /\ rl = [t \in RenderThreads |-> RenderLocalsInit]
    /\ al = AudioLocalsInit
    /\ rendered = 0
    /\ budget = MaxMessages
    /\ committed = <<>>
    /\ delivered = <<>>
    /\ cleanFloor = 0

midiPrepareToPlay(sample_rate, hop_size) ==
    /\ budget > 0 /\ budget' = budget - 1
    /\ hop_size_' = hop_size
    /\ adsr_' = adsrSetParameters(adsr_, sample_rate)
    /\ UNCHANGED <<pipeline, current_midi_note_, current_pitch_bend_,
                   current_midi_velocity_, features>>

processMidiBuffer(midi_buffer) ==
    /\ Len(midi_buffer) <= budget /\ budget' = budget - Len(midi_buffer)
    /\ LET m == handleMessages(MidiState, midi_buffer)
       IN /\ current_midi_note_' = m.current_midi_note_
          /\ current_pitch_bend_' = m.current_pitch_bend_
          /\ current_midi_velocity_' = m.current_midi_velocity_
          /\ adsr_' = m.adsr_
    /\ UNCHANGED <<pipeline, hop_size_, features>>

\* getCurrentPredictControlsInput as it would be if it took one sample of
\* the envelope, not a hop.
getCurrentPredictControlsInputOneSample ==
    /\ LET f0_hz == getFreqFromNoteAndBend(current_midi_note_, current_pitch_bend_)
           a == getNextSamples(adsr_, Min(hop_size_, 1))
           loudness_norm == IF hop_size_ > 0 THEN a.envelopeVal * current_midi_velocity_ ELSE 0
       IN /\ adsr_' = a
          /\ features' = [f0_hz |-> f0_hz, f0_norm |-> mapFromLog10(f0_hz),
                          loudness_norm |-> loudness_norm,
                          loudness_db |-> 80 * (loudness_norm - 127 * AdsrUnit)]
    /\ UNCHANGED <<pipeline, budget, hop_size_, current_midi_note_, current_pitch_bend_,
                   current_midi_velocity_>>

\* getCurrentPredictControlsInput: f0 from the note and the bend, then
\* hop_size_ samples of the envelope, each times the velocity, of which the
\* last is kept (0 when the loop does not run); loudness_db is
\* (loudness_norm - 1) * 80.
getCurrentPredictControlsInput ==
    /\ LET f0_hz == getFreqFromNoteAndBend(current_midi_note_, current_pitch_bend_)
           a == getNextSamples(adsr_, hop_size_)
           loudness_norm == IF hop_size_ > 0 THEN a.envelopeVal * current_midi_velocity_ ELSE 0
       IN /\ adsr_' = a
          /\ features' = [f0_hz |-> f0_hz, f0_norm |-> mapFromLog10(f0_hz),
                          loudness_norm |-> loudness_norm,
                          loudness_db |-> 80 * (loudness_norm - 127 * AdsrUnit)]
    /\ UNCHANGED <<pipeline, budget, hop_size_, current_midi_note_, current_pitch_bend_,
                   current_midi_velocity_>>

\* MidiInputProcessor::reset.
midiReset ==
    /\ budget > 0 /\ budget' = budget - 1
    /\ adsr_' = adsrReset(adsr_)
    /\ current_midi_note_' = kMidiNoteA4
    /\ current_pitch_bend_' = kPitchBendBase
    /\ current_midi_velocity_' = 0
    /\ UNCHANGED <<pipeline, hop_size_, features>>

NextMidi ==
    \/ \E sample_rate \in MidiRates :
          midiPrepareToPlay(sample_rate, (sample_rate * kModelHopSize) \div kModelSampleRate_Hz)
    \/ \E midi_buffer \in MidiBuffers : processMidiBuffer(midi_buffer)
    \/ getCurrentPredictControlsInput
    \/ midiReset

\* The caller keeps asking for features (process_midi, bindings.cpp 57-60).
SpecMidi == InitMidi /\ [][NextMidi]_vars /\ WF_vars(getCurrentPredictControlsInput)

\* C28: processMidiBuffer reacts to note-on, note-off and pitch-wheel
\* messages only.  A buffer of other messages leaves the note, the bend, the
\* velocity and the envelope as they were; a note-on sets the note and the
\* velocity and puts the envelope in its attack, leaving the bend; a
\* pitch-wheel message sets the bend and nothing else; a note-off leaves
\* note, bend and velocity and puts the envelope, unless idle, in release.
MidiDispatch ==
    [][\A midi_buffer \in MidiBuffers :
          processMidiBuffer(midi_buffer) =>
             /\ (\A i \in 1..Len(midi_buffer) :
                    /\ ~isNoteOn(midi_buffer[i]) /\ ~isNoteOff(midi_buffer[i])
                    /\ ~isPitchWheel(midi_buffer[i]))
                   => UNCHANGED <<current_midi_note_, current_pitch_bend_,
                                  current_midi_velocity_, adsr_>>
             /\ (Len(midi_buffer) = 1 /\ isNoteOn(midi_buffer[1]))
                   => /\ current_midi_note_' = midi_buffer[1].data1
                      /\ current_midi_velocity_' = midi_buffer[1].data2
                      /\ adsr_'.state = "attack"
                      /\ adsr_'.envelopeVal = adsr_.envelopeVal
                      /\ UNCHANGED current_pitch_bend_
             /\ (Len(midi_buffer) = 1 /\ isPitchWheel(midi_buffer[1]))
                   => /\ current_pitch_bend_'
                            = midi_buffer[1].data1 + 128 * midi_buffer[1].data2
                      /\ UNCHANGED <<current_midi_note_, current_midi_velocity_, adsr_>>
             /\ (Len(midi_buffer) = 1 /\ isNoteOff(midi_buffer[1]))
                   => /\ UNCHANGED <<current_midi_note_, current_pitch_bend_,
                                     current_midi_velocity_>>
                      /\ adsr_'.state = IF adsr_.state = "idle" THEN "idle" ELSE "release"
                      /\ adsr_'.envelopeVal = adsr_.envelopeVal]_vars

\* The note A5 at half velocity, held at its sustain, with the wheel a
\* semitone up: a note-on and a pitch-wheel message have been processed.
WitnessBentNote ==
    /\ current_midi_note_ = kMidiNoteA4 + 12 /\ current_midi_velocity_ = 64
    /\ current_pitch_bend_ = kPitchBendBase + kPitchRangePerSemitone
    /\ adsr_.state = "sustain"

\* C29: a call of getCurrentPredictControlsInput leaves the envelope where
\* hop_size_ single samples take it, and returns loudness_norm equal to the
\* level of the last of those samples times the current velocity, and f0_hz
\* equal to the frequency of the current note and bend.
HopFeatures ==
    [][getCurrentPredictControlsInput =>
          /\ hop_size_ > 0
          /\ adsr_' = getNextSamples(adsr_, hop_size_)
          /\ features'.loudness_norm
                = getNextSample(getNextSamples(adsr_, hop_size_ - 1)).envelopeVal
                     * current_midi_velocity_
          /\ features'.f0_hz
                = getFreqFromNoteAndBend(current_midi_note_, current_pitch_bend_)]_vars

\* A call at the hop of rate 200 returned a level of the decay of a note at
\* full velocity with the wheel up.
WitnessHopInDecay ==
    /\ hop_size_ = (200 * kModelHopSize) \div kModelSampleRate_Hz
    /\ adsr_.state = "decay" /\ current_midi_velocity_ = 127
    /\ current_pitch_bend_ # kPitchBendBase
    /\ features.loudness_norm = adsr_.envelopeVal * 127
    /\ features.f0_hz = getFreqFromNoteAndBend(current_midi_note_, current_pitch_bend_)

OneWorker ==
    /\ [](pc.ctl = "idle" => (should_run_ <=> pc.worker \in {"loop", "render"} \cup InTick))
    /\ [][/\ startTimer =>
                /\ pc'.ctl = "idle" /\ should_run_'
                /\ (pc.worker # "none") => UNCHANGED vars
                /\ (pc.worker = "none") => (pc'.worker = "loop")
          /\ ((stopTimer \/ stopTimerJoined) /\ pc'.ctl = "idle") =>
                (pc'.worker = "none" /\ ~should_run_')
          /\ ((pc.worker = "none") # (pc'.worker = "none")) =>
                (startTimer \/ stopTimerJoined \/ destructorJoined)]_vars

\* Between two calls of the control thread, with the flag true: the worker
\* is inside its second tick, which is where a further startTimer must
\* change nothing.
WitnessWorkerInTick ==
    /\ pc.ctl = "idle" /\ should_run_ /\ pc.worker = "synth"
    /\ Len(committed) = user_hop_size_ /\ rendered = user_hop_size_
    /\ budget = MaxTicksControl

\* C32: a tick with the model ready stores current_pitch = f0_norm of the
\* pitch-shifted f0 and current_rms = the stored loudness, the same values
\* it puts in the features of the hop; no other step of the worker or of a
\* setter changes them, so the two getters report the features of the most
\* recent such tick.
FeedbackPublished ==
    /\ [](/\ current_pitch_ = predict_controls_input_.f0_norm
          /\ current_rms_ = predict_controls_input_.loudness_norm)
    /\ [][/\ (renderBegin("worker") /\ model_ready_) =>
                /\ current_pitch_'
                      = normalizedPitch(offsetPitch(f0_hz_, pitch_shift_semitones_))
                /\ current_rms_' = loudness_norm_
                /\ predict_controls_input_'.f0_hz
                      = offsetPitch(f0_hz_, pitch_shift_semitones_)
          /\ (pc.worker # "render") => UNCHANGED <<feedback, predict_controls_input_>>]_vars

\* A tick that began after setPitchShift(12) and setLoudnessNorm(80): the
\* published pitch is that of the shifted f0, not of the stored one.
WitnessShiftedFeedback ==
    /\ pc.worker = "infer" /\ pitch_shift_semitones_ = 12 /\ loudness_norm_ = 80
    /\ f0_hz_ = 100 * kFreqA4_Hz
    /\ current_pitch_ = normalizedPitch(200 * kFreqA4_Hz)
    /\ current_pitch_ # normalizedPitch(f0_hz_)
    /\ current_rms_ = 80

\* C33: a render stores as previous distribution the normalized, amplitude-
\* scaled distribution it rendered; the amplitude envelope of each harmonic
\* starts at the stored value of the render before, holds the new
\* coefficient over the second half of the hop, and whatever render comes
\* next starts each envelope at the value this one ended with.
AmplitudeContinuity ==
    [][/\ synthReset =>
            harmonic_synth_'.previous_harmonic_distribution_ = AllZero
       /\ \A harmonic_distribution \in HarmonicDistributions,
             amplitude \in HarmonicAmplitudes, f0_hz \in HarmonicF0s :
             synthRender(harmonic_distribution, amplitude, f0_hz) =>
                LET normalized ==
                       normalizeHarmonicDistribution(harmonic_distribution, amplitude, f0_hz)
                IN /\ harmonic_synth_'.previous_harmonic_distribution_ = normalized
                   /\ \A k \in 1..kHarmonicsSize :
                         /\ harmonicAmplitude(harmonic_synth_, normalized, k, 0)
                               = harmonic_synth_.previous_harmonic_distribution_[k] * HalfHop
                         /\ \A i \in HalfHop..(kModelHopSize - 1) :
                               harmonicAmplitude(harmonic_synth_, normalized, k, i)
                                  = normalized[k] * HalfHop
                         /\ \A next \in HarmonicDistributions :
                               harmonicAmplitude(harmonic_synth_', next, k, 0)
                                  = harmonicAmplitude(harmonic_synth_, normalized, k,
                                                      kModelHopSize - 1)]_vars

\* Two renders with different distributions: the second, of the second
\* harmonic alone at twice the unit amplitude, is the one stored.
WitnessCrossfade ==
    /\ rendered = 2 * kModelHopSize
    /\ synthesis_input_.f0_hz = 100 * kFreqA4_Hz
    /\ harmonic_synth_.previous_amplitude_ = 2 * AmpUnit
    /\ harmonic_synth_.previous_harmonic_distribution_ = <<0, 2 * AmpUnit>>

\* The noise synthesizer on its own: constructed with the pipeline's sizes
\* or with others its constructor takes, rendering and reset.  A render's
\* convolution is known by its number.
MaxSeed == 32
NoiseAmpsSizes == {2, kNoiseAmpsSize}
NoiseOutputSizes == {kModelHopSize, ConvolveBufferSize}

noiseConstruct(num_noise_amps, num_output_samples) ==
    /\ noise_synth_' = NoiseSynthesizer(num_noise_amps, num_output_samples)
    /\ UNCHANGED <<host, midi, held, config, model_ready_, predictor, harmonic_synth_, rings,
                   resampled_model_output_buffer_, params, feedback, controls,
                   should_run_, pc, rl, al, rendered, history>>

\* render: convolve() ends with the crop of the convolution.
noiseRender(seed) ==
    /\ noise_synth_' = cropAndCompensateDelay(noise_synth_, convolved(seed),
                                              noise_synth_.impulse_response_size_)
    /\ UNCHANGED <<host, midi, held, config, model_ready_, predictor, harmonic_synth_, rings,
                   resampled_model_output_buffer_, params, feedback, controls,
                   should_run_, pc, rl, al, rendered, history>>

noiseReset ==
    /\ noise_synth_' =
          [noise_synth_ EXCEPT !.noise_audio_ = Zeros(noise_synth_.num_output_samples_)]
    /\ UNCHANGED <<host, midi, held, config, model_ready_, predictor, harmonic_synth_, rings,
                   resampled_model_output_buffer_, params, feedback, controls,
                   should_run_, pc, rl, al, rendered, history>>

NextNoise ==
    \/ \E num_noise_amps \in NoiseAmpsSizes, num_output_samples \in NoiseOutputSizes :
          noiseConstruct(num_noise_amps, num_output_samples)
    \/ \E seed \in 1..MaxSeed : noiseRender(seed)
    \/ noiseReset

SpecNoise == Init /\ [][NextNoise]_vars

\* C34: a synthesizer built as the pipeline builds it (65 noise bands, 320
\* output samples) has an impulse response of M = 128 samples; its crop
\* offset is 62, every render's output sample i is the convolution's sample
\* 62 + i, the last index 381 is inside the convolution buffer, and no
\* output sample is a zero filled in for an index out of range.
NoiseCrop ==
    /\ []((/\ noise_synth_.num_noise_amps_ = kNoiseAmpsSize
           /\ noise_synth_.num_output_samples_ = kModelHopSize) =>
             /\ noise_synth_.impulse_response_size_ = 128
             /\ (noise_synth_.impulse_response_size_ - 1) \div 2 - 1 = 62
             /\ Len(noise_synth_.noise_audio_) = 320
             /\ 62 + (kModelHopSize - 1) = 381
             /\ 381 < ConvolveBufferSize)
    /\ [][\A seed \in 1..MaxSeed :
            (/\ noise_synth_.num_noise_amps_ = kNoiseAmpsSize
             /\ noise_synth_.num_output_samples_ = kModelHopSize
             /\ noiseRender(seed)) =>
               \A i \in 0..(kModelHopSize - 1) :
                  /\ noise_synth_'.noise_audio_[i + 1] = convolved(seed)[62 + i + 1]
                  /\ noise_synth_'.noise_audio_[i + 1] # 0]_vars

\* The pipeline's synthesizer after its third convolution: the output runs
\* from the convolution's sample 62 to its sample 381.
WitnessCropped ==
    /\ noise_synth_.num_noise_amps_ = kNoiseAmpsSize
    /\ noise_synth_.num_output_samples_ = kModelHopSize
    /\ noise_synth_.noise_audio_[1] = 3 * ConvolveBufferSize + 62 + 1
    /\ noise_synth_.noise_audio_[kModelHopSize] = 3 * ConvolveBufferSize + 381 + 1

\* C35: whenever the pipeline reports ready (isReady(), model_ready_) the
\* predictor holds a loaded model (isLoaded(), model_loaded_), after any
\* sequence of loads, failed loads and releases.
ReadyImpliesLoaded == model_ready_ => model_loaded_

\* The Python binding: a DDSPProcessor constructed (the pipeline prepared,
\* the model loaded, no worker), and process() called a few times.  The
\* whole of it runs on the caller's thread, which keeps running.
MaxCalls == 2
MaxBlock == 3
BlockSizes == {1, MaxBlock}

InitBinding ==
    /\ \E sample_rate \in HostRates :
          /\ sample_rate_ = sample_rate
          /\ user_frame_size_ = CeilDiv(sample_rate * kModelFrameSize, kModelSampleRate_Hz)
          /\ user_hop_size_ = (sample_rate * kModelHopSize) \div kModelSampleRate_Hz
    /\ model_ready_ = TRUE
    /\ model_loaded_ = TRUE
    /\ gruState_ = 0
    /\ interpreter_ = InterpreterInit
    /\ held = loadHandles("none", TRUE)
    /\ MidiInit
    /\ noise_synth_ = NoiseSynthesizer(kNoiseAmpsSize, kModelHopSize)
    /\ \E block_size \in BlockSizes :
          binding = [block_size |-> block_size, at |-> "idle", calls |-> 0, out |-> <<>>]
    /\ unity = NoPlugin
    /\ harmonic_synth_ = HarmonicInit
    /\ input_fifo_ = zeroPadInputBuffer(NewFifo(kRingBufferSize), user_frame_size_)
    /\ output_fifo_ = NewFifo(kRingBufferSize)
    /\ input_ring_buffer_ = Zeros(kRingBufferSize)
    /\ output_ring_buffer_ = Zeros(kRingBufferSize)
    /\ resampled_model_output_buffer_ = Zeros(user_hop_size_)
    /\ f0_hz_ = 100 * kFreqA4_Hz
    /\ loudness_norm_ = 40
    /\ pitch_shift_semitones_ = 0
    /\ harmonic_gain_ = 1
    /\ noise_gain_ = 1
    /\ current_pitch_ = 0
    /\ current_rms_ = 0
    /\ predict_controls_input_ = AudioFeaturesInit
    /\ synthesis_input_ = SynthesisControlsInit
    /\ should_run_ = FALSE
    /\ pc = [ctl |-> "idle", worker |-> "none", audio |-> "idle"]
    /\ rl = [t \in RenderThreads |-> RenderLocalsInit]
    /\ al = AudioLocalsInit
    /\ rendered = 0
    /\ budget = MaxCalls * MaxBlock
    /\ committed = <<>>
    /\ delivered = <<>>
    /\ cleanFloor = 0

\* process(f0, loudness): the two setters; render() follows.
process(f0, loudness) ==
    /\ binding.at = "idle" /\ binding.calls < MaxCalls
    /\ f0_hz_' = clamp(f0, kPitchRangeMin_cHz, kPitchRangeMax_cHz)
    /\ loudness_norm_' = clamp(loudness, 0, 80)
    /\ binding' = [binding EXCEPT !.at = "loop", !.calls = @ + 1]
    /\ UNCHANGED <<unity, noise_synth_, midi, held, config, model_ready_, predictor,
                   harmonic_synth_, rings, resampled_model_output_buffer_,
                   pitch_shift_semitones_, harmonic_gain_, noise_gain_, feedback,
                   controls, should_run_, pc, rl, al, rendered, history>>

\* render(): the test of the while loop finds too few samples ready and
\* calls triggerRender.
bindingTriggerRender ==
    /\ binding.at = "loop"
    /\ getNumReady(output_fifo_) < binding.block_size
    /\ triggerRender

\* render(): the test of the while loop finds block_size samples ready.
bindingLoopExit ==
    /\ binding.at = "loop" /\ pc.ctl = "idle"
    /\ getNumReady(output_fifo_) >= binding.block_size
    /\ binding' = [binding EXCEPT !.at = "read"]
    /\ UNCHANGED unity
    /\ UNCHANGED <<noise_synth_, midi, held, config, model_ready_, predictor, harmonic_synth_,
                   rings, resampled_model_output_buffer_, params, feedback, controls,
                   should_run_, pc, rl, al, rendered, history>>

\* render(): getNextBlock(temp_buffer.data(), block_size).
bindingGetNextBlock ==
    /\ binding.at = "read"
    /\ getNextBlock(binding.block_size)

\* render(): the block_size samples of temp_buffer are converted and
\* returned (a sample is known by its tag, before and after the conversion).
bindingReturn ==
    /\ binding.at = "read" /\ pc.audio = "done"
    /\ binding' = [binding EXCEPT !.at = "idle",
                                  !.out = [i \in 1..binding.block_size |-> al.output[i]]]
    /\ al' = AudioLocalsInit
    /\ pc' = [pc EXCEPT !.audio = "idle"]
    /\ UNCHANGED <<unity, noise_synth_, midi, held, config, model_ready_, predictor,
                   harmonic_synth_, rings, resampled_model_output_buffer_, params,
                   feedback, controls, should_run_, rl, rendered, history>>

BindingStep ==
    \/ bindingTriggerRender
    \/ renderBegin("ctl")
    \/ renderInfer("ctl")
    \/ renderSynth("ctl")
    \/ renderPush("ctl")
    \/ renderCommit("ctl")
    \/ bindingLoopExit
    \/ bindingGetNextBlock
    \/ popCopy
    \/ popFinish
    \/ bindingReturn

NextBinding ==
    \/ \E f0 \in {100 * kFreqA4_Hz, 200 * kFreqA4_Hz}, loudness \in {40, 80} :
          process(f0, loudness)
    \/ BindingStep

SpecBinding == InitBinding /\ [][NextBinding]_vars /\ WF_vars(BindingStep)

\* C36: every call of process() comes back: the loop of render() ends and
\* block_size samples are returned, whatever the predictor does at each hop.
BindingReturns ==
    (binding.at = "loop") ~> (binding.at = "idle" /\ Len(binding.out) = binding.block_size)

\* The Unity plugin after CreateCallback: the parameters at their defaults,
\* the pipeline prepared, the model loaded and the worker started.  The
\* mixer calls ProcessCallback on the audio thread and the parameter
\* callbacks at any time.  Parameter values are in the unit of the pipeline
\* parameter of their index (cHz, 1/80, semitones, gains); the output gain
\* is in dB.
MaxLength == 3
MaxParamCalls == 3
DspBufferSizes == {2}
ParameterDefaults ==
    [i \in 0..(P_NUM - 1) |->
        IF i = P_F0 THEN 100 * kFreqA4_Hz
        ELSE IF i = P_LOUDNESS THEN 40
        ELSE IF i \in {P_HARMONIC_GAIN, P_NOISE_GAIN} THEN 1
        ELSE 0]
\* Values of a parameter: NaN, below every range, inside the ranges of the
\* loudness and the gains, inside the range of f0 and above the others.
ParameterValues == {NaN, 0 - 1, 5, 100 * kFreqA4_Hz}
OutputGains == {0, 20}

InitUnity ==
    /\ \E sample_rate \in {100} :
          /\ sample_rate_ = sample_rate
          /\ user_frame_size_ = CeilDiv(sample_rate * kModelFrameSize, kModelSampleRate_Hz)
          /\ user_hop_size_ = (sample_rate * kModelHopSize) \div kModelSampleRate_Hz
    /\ model_ready_ = TRUE
    /\ model_loaded_ = TRUE
    /\ gruState_ = 0
    /\ interpreter_ = InterpreterInit
    /\ held = loadHandles("none", TRUE)
    /\ MidiInit
    /\ noise_synth_ = NoiseSynthesizer(kNoiseAmpsSize, kModelHopSize)
    /\ binding = NoBinding
    /\ \E buffer_size \in DspBufferSizes :
          unity = [NoPlugin EXCEPT !.p = ParameterDefaults, !.temp_buffer = buffer_size,
                                   !.at = "idle"]
    /\ harmonic_synth_ = HarmonicInit
    /\ input_fifo_ = zeroPadInputBuffer(NewFifo(kRingBufferSize), user_frame_size_)
    /\ output_fifo_ = NewFifo(kRingBufferSize)
    /\ input_ring_buffer_ = Zeros(kRingBufferSize)
    /\ output_ring_buffer_ = Zeros(kRingBufferSize)
    /\ resampled_model_output_buffer_ = Zeros(user_hop_size_)
    /\ f0_hz_ = 100 * kFreqA4_Hz
    /\ loudness_norm_ = 40
    /\ pitch_shift_semitones_ = 0
    /\ harmonic_gain_ = 1
    /\ noise_gain_ = 1
    /\ current_pitch_ = 0
    /\ current_rms_ = 0
    /\ predict_controls_input_ = AudioFeaturesInit
    /\ synthesis_input_ = SynthesisControlsInit
    /\ should_run_ = TRUE
    /\ pc = [ctl |-> "idle", worker |-> "loop", audio |-> "idle"]
    /\ rl = [t \in RenderThreads |-> RenderLocalsInit]
    /\ al = AudioLocalsInit
    /\ rendered = 0
    /\ budget = MaxTicksControl
    /\ committed = <<>>
    /\ delivered = <<>>
    /\ cleanFloor = 0

RECURSIVE Pow10(_)
Pow10(k) == IF k = 0 THEN 1 ELSE 10 * Pow10(k - 1)
\* std::pow(10.0f, gain_db / 20.0f), in units of 1/10, for the gains above.
gainLinear(gain_db) == Pow10(gain_db \div 20 + 1)

\* ProcessCallback up to the call of getNextBlock.  A length above the size
\* of temp_buffer makes popFromOutputBuffer write past its end, which is
\* undefined: the callback goes on as if the memory were its own, or the
\* process ends.
ProcessCallback(length, outchannels) ==
    /\ unity.at = "idle" /\ pc.audio = "idle"
    /\ \E outcome \in IF length > unity.temp_buffer THEN {"process", "crashed"}
                       ELSE {"process"} :
          unity' = [unity EXCEPT !.at = outcome, !.length = length,
                                 !.outchannels = outchannels]
    /\ UNCHANGED <<binding, noise_synth_, midi, held, config, model_ready_, predictor,
                   harmonic_synth_, rings, resampled_model_output_buffer_, params,
                   feedback, controls, should_run_, pc, rl, al, rendered, history>>

\* ProcessCallback: pipeline->getNextBlock(temp_buffer.data(), length).
processGetNextBlock ==
    /\ unity.at = "process"
    /\ getNextBlock(unity.length)

\* ProcessCallback after getNextBlock: the gain, the copy of the mono block
\* to every channel of every frame, the return.
processReturn ==
    /\ unity.at = "process" /\ pc.audio = "done"
    /\ LET gain_linear == gainLinear(unity.p[P_OUTPUT_GAIN])
       IN unity' = [unity EXCEPT
             !.at = "idle",
             !.samples_read = al.ret,
             !.outbuffer =
                 [j \in 1..(unity.length * unity.outchannels) |->
                     LET n == (j - 1) \div unity.outchannels
                     IN IF n < al.ret THEN al.output[n + 1] * gain_linear ELSE 0],
             !.result = UNITY_AUDIODSP_OK]
    /\ al' = AudioLocalsInit
    /\ pc' = [pc EXCEPT !.audio = "idle"]
    /\ UNCHANGED <<binding, noise_synth_, midi, held, config, model_ready_, predictor,
                   harmonic_synth_, rings, resampled_model_output_buffer_, params,
                   feedback, controls, should_run_, rl, rendered, history>>

\* SetFloatParameterCallback as it would be without the test of the index.
SetFloatParameterCallbackUnchecked(index, value) ==
    /\ unity.at # "none" /\ unity.calls < MaxParamCalls
    /\ unity' = [unity EXCEPT
          !.p = [i \in 0..(P_NUM - 1) |-> IF i = index THEN value ELSE unity.p[i]],
          !.result = UNITY_AUDIODSP_OK, !.calls = @ + 1]
    /\ f0_hz_' = IF index = P_F0
                 THEN clamp(value, kPitchRangeMin_cHz, kPitchRangeMax_cHz) ELSE f0_hz_
    /\ loudness_norm_' = IF index = P_LOUDNESS THEN clamp(value, 0, 80) ELSE loudness_norm_
    /\ pitch_shift_semitones_' = IF index = P_PITCH_SHIFT THEN value
                                 ELSE pitch_shift_semitones_
    /\ harmonic_gain_' = IF index = P_HARMONIC_GAIN THEN clamp(value, 0, 10)
                         ELSE harmonic_gain_
    /\ noise_gain_' = IF index = P_NOISE_GAIN THEN clamp(value, 0, 10) ELSE noise_gain_
    /\ UNCHANGED <<binding, noise_synth_, midi, held, config, model_ready_, predictor,
                   harmonic_synth_, rings, resampled_model_output_buffer_,
                   feedback, controls, should_run_, pc, rl, al, rendered, history>>

\* SetFloatParameterCallback: the test of the index, the store in p and the
\* setter of the pipeline parameter of that index (none for the output gain).
SetFloatParameterCallback(index, value) ==
    /\ unity.at # "none" /\ unity.calls < MaxParamCalls
    /\ IF index < 0 \/ index >= P_NUM
       THEN /\ unity' = [unity EXCEPT !.result = UNITY_AUDIODSP_ERR_UNSUPPORTED,
                                      !.calls = @ + 1]
            /\ UNCHANGED params
       ELSE /\ unity' = [unity EXCEPT !.p[index] = value, !.result = UNITY_AUDIODSP_OK,
                                      !.calls = @ + 1]
            /\ f0_hz_' = IF index = P_F0
                         THEN clamp(value, kPitchRangeMin_cHz, kPitchRangeMax_cHz)
                         ELSE f0_hz_
            /\ loudness_norm_' = IF index = P_LOUDNESS THEN clamp(value, 0, 80)
                                 ELSE loudness_norm_
            /\ pitch_shift_semitones_' = IF index = P_PITCH_SHIFT THEN value
                                         ELSE pitch_shift_semitones_
            /\ harmonic_gain_' = IF index = P_HARMONIC_GAIN THEN clamp(value, 0, 10)
                                 ELSE harmonic_gain_
            /\ noise_gain_' = IF index = P_NOISE_GAIN THEN clamp(value, 0, 10)
                              ELSE noise_gain_
    /\ UNCHANGED <<binding, noise_synth_, midi, held, config, model_ready_, predictor,
                   harmonic_synth_, rings, resampled_model_output_buffer_,
                   feedback, controls, should_run_, pc, rl, al, rendered, history>>

\* GetFloatParameterCallback: the test of the index and *value = p[index].
GetFloatParameterCallback(index) ==
    /\ unity.at # "none" /\ unity.calls < MaxParamCalls
    /\ IF index < 0 \/ index >= P_NUM
       THEN unity' = [unity EXCEPT !.result = UNITY_AUDIODSP_ERR_UNSUPPORTED,
                                   !.calls = @ + 1]
       ELSE unity' = [unity EXCEPT !.value = unity.p[index],
                                   !.result = UNITY_AUDIODSP_OK, !.calls = @ + 1]
    /\ UNCHANGED <<binding, noise_synth_, midi, held, config, model_ready_, predictor,
                   harmonic_synth_, rings, resampled_model_output_buffer_, params,
                   feedback, controls, should_run_, pc, rl, al, rendered, history>>

NextUnity ==
    \/ renderLoop
    \/ renderBegin("worker")
    \/ renderInfer("worker")
    \/ renderSynth("worker")
    \/ renderPush("worker")
    \/ renderCommit("worker")
    \/ \E length \in 0..MaxLength : ProcessCallback(length, 2)
    \/ processGetNextBlock
    \/ popCopy
    \/ popFinish
    \/ processReturn
    \/ \E gain_db \in OutputGains : SetFloatParameterCallback(P_OUTPUT_GAIN, gain_db)

SpecUnity == InitUnity /\ [][NextUnity]_vars

\* What ProcessCallback left in outbuffer: all channels of a frame are
\* equal, and the frames from samples_read on are 0.
FramesDefined ==
    /\ unity.result = UNITY_AUDIODSP_OK
    /\ Len(unity.outbuffer) = unity.length * unity.outchannels \/ unity.at # "idle"
    /\ (unity.at = "idle") =>
          \A j \in 1..Len(unity.outbuffer) :
             LET n == (j - 1) \div unity.outchannels
             IN /\ unity.outbuffer[j] = unity.outbuffer[n * unity.outchannels + 1]
                /\ (n >= unity.samples_read) => unity.outbuffer[j] = 0

\* C37: for every length of a callback, ProcessCallback asks getNextBlock
\* for no more samples than temp_buffer holds, so nothing is written past
\* it; every frame it leaves is a popped sample times the gain or 0, the
\* same in all channels; and it returns UNITY_AUDIODSP_OK.
ProcessDefined ==
    /\ unity.at # "crashed"
    /\ (unity.at = "process") => (unity.length <= unity.temp_buffer)
    /\ FramesDefined

\* The parameter callbacks alone, with every index from one below the first
\* to one above the last.
NextUnityParams ==
    \/ \E index \in (0 - 1)..P_NUM, value \in ParameterValues :
          SetFloatParameterCallback(index, value)
    \/ \E index \in (0 - 1)..P_NUM : GetFloatParameterCallback(index)

SpecUnityParams == InitUnity /\ [][NextUnityParams]_vars

\* C38: SetFloatParameterCallback with an index outside 0..P_NUM-1 returns
\* UNITY_AUDIODSP_ERR_UNSUPPORTED and changes neither p nor a pipeline
\* parameter.  With a valid index it stores the value in p, so the next
\* GetFloatParameterCallback of that index returns it, and the pipeline
\* parameter of the index holds the value as the setter clamps it: inside
\* the range when the value is a number.
ParameterCallbacks ==
    [][/\ \A index \in (0 - 1)..P_NUM, value \in ParameterValues :
             SetFloatParameterCallback(index, value) =>
                IF index \notin 0..(P_NUM - 1)
                THEN /\ unity'.result = UNITY_AUDIODSP_ERR_UNSUPPORTED
                     /\ unity'.p = unity.p
                     /\ UNCHANGED params
                ELSE /\ unity'.result = UNITY_AUDIODSP_OK
                     /\ unity'.p = [unity.p EXCEPT ![index] = value]
                     /\ (index = P_F0) =>
                           /\ f0_hz_' = clamp(value, kPitchRangeMin_cHz, kPitchRangeMax_cHz)
                           /\ (value # NaN) =>
                                 f0_hz_' \in kPitchRangeMin_cHz..kPitchRangeMax_cHz
                     /\ (index = P_LOUDNESS) =>
                           /\ loudness_norm_' = clamp(value, 0, 80)
                           /\ (value # NaN) => loudness_norm_' \in 0..80
                     /\ (index = P_PITCH_SHIFT) => pitch_shift_semitones_' = value
                     /\ (index = P_HARMONIC_GAIN) =>
                           /\ harmonic_gain_' = clamp(value, 0, 10)
                           /\ (value # NaN) => harmonic_gain_' \in 0..10
                     /\ (index = P_NOISE_GAIN) =>
                           /\ noise_gain_' = clamp(value, 0, 10)
                           /\ (value # NaN) => noise_gain_' \in 0..10
                     /\ \A other \in 0..(P_NUM - 1) \ {index} :
                           /\ (other = P_F0) => UNCHANGED f0_hz_
                           /\ (other = P_LOUDNESS) => UNCHANGED loudness_norm_
                           /\ (other = P_PITCH_SHIFT) => UNCHANGED pitch_shift_semitones_
                           /\ (other = P_HARMONIC_GAIN) => UNCHANGED harmonic_gain_
                           /\ (other = P_NOISE_GAIN) => UNCHANGED noise_gain_
       /\ \A index \in (0 - 1)..P_NUM :
             GetFloatParameterCallback(index) =>
                IF index \notin 0..(P_NUM - 1)
                THEN /\ unity'.result = UNITY_AUDIODSP_ERR_UNSUPPORTED
                     /\ unity'.value = unity.value
                ELSE /\ unity'.result = UNITY_AUDIODSP_OK
                     /\ unity'.value = unity.p[index]]_vars

\* The harmonic gain was set to 440 and read back: p holds 440, the get
\* returned it, and the pipeline holds the end of its range.
WitnessGainClamped ==
    /\ unity.p[P_HARMONIC_GAIN] = 100 * kFreqA4_Hz
    /\ unity.value = 100 * kFreqA4_Hz /\ unity.result = UNITY_AUDIODSP_OK
    /\ harmonic_gain_ = 10
    /\ noise_gain_ = 1

====
